---- MODULE Spec2Model ----
(***************************************************************************)
(* Model of the chat backend: the usage-quota policy (check_usage_limit),  *)
(* the WebSocket message loop (websocket_endpoint and                      *)
(* generate_model_response) and the HTTP chat request (chat), all working  *)
(* on one shared store (user rows and the chat_history table).             *)
(*                                                                         *)
(* Every WebSocket connection and every HTTP request is its own thread of  *)
(* control.  The HTTP handlers are plain `def` endpoints run on the thread *)
(* pool, connections may be served by different worker processes, and the  *)
(* code takes no lock: it opens one database session per message, loads    *)
(* the user row, and writes the counter back as loaded value + 1.  The     *)
(* store is the only thing exchanges share, so one action is one database  *)
(* round trip (load, commit, refresh) or one piece of handler-local code,  *)
(* and the actions of different exchanges interleave freely.               *)
(*                                                                         *)
(* process_ai_request (core/helpers.py) hands the message to               *)
(* generate_model_response and returns its result; the tests that patch    *)
(* chat_repository and read the frame off the socket rely on that.         *)
(*                                                                         *)
(* A connection starts at the handshake (accept, authenticate_websocket,   *)
(* the lookup of the user) and ends when its handler returns: with         *)
(* policy-violation when it does not authenticate, with internal-error on  *)
(* an unexpected fault (a failing query outside generate_model_response, a *)
(* frame that is no JSON), or when the client is gone, which the handler   *)
(* notices at its next receive or send.  A handler that returned holds     *)
(* nothing any more.  Spec runs connections of clients with a valid token; *)
(* SpecSession runs one connection with any credential beside the HTTP     *)
(* client, which also reads the history.  SpecSessionLive is that session  *)
(* with the handler scheduled, SpecWorker runs the connections on the      *)
(* event loop of one worker process, and SpecDeletion lets the store lose  *)
(* the user's row while connections are open.                              *)
(*                                                                         *)
(* The history query, signup and login, the rate limiter and the quota     *)
(* policy are also run alone (SpecHistory, SpecAuth, SpecRate, SpecQuota), *)
(* each on the part of the state it works on.                              *)
(***************************************************************************)
EXTENDS Integers, Sequences, FiniteSets, TLC

\* ------------------------------------------------------------------ bounds
MaxMsgs == 3        \* inbound messages and HTTP requests received in one run
MaxCount == 13      \* largest usage_count tried on the quota policy alone
MaxLimit == 11      \* largest AI_USAGE_LIMIT tried on the quota policy alone
MaxRows == 3        \* most rows of a table the history query is tried on

\* --------------------------------------------------------------- constants
DEFAULT_AI_USAGE_LIMIT == 10
UNLIMITED == -1

WSConns == {"ws1", "ws2"}
HTTPClients == {"h1"}
Procs == WSConns \cup HTTPClients

UserId == 1
Users == {1, 2}
AuthClients == {"a1", "a2"}
Creds == {"valid", "missing", "invalid", "expired", "no_user"}

\* api/chat.py:57, :107 and the client's own close
WS_1008_POLICY_VIOLATION == 1008
WS_1011_INTERNAL_ERROR == 1011
WS_1000_NORMAL_CLOSURE == 1000

Prompts == {"Test prompt"}
Replies == {"AI Response"}
Failures == {"API key invalid"}

\* core/enums.py
AIModels == {"groq", "gemini"}
PROVIDER_AVAILABILITY == [m \in AIModels |-> m = "groq"]

VARIABLES
    AI_USAGE_LIMIT,     \* settings.AI_USAGE_LIMIT
    ai_requests_count,  \* stored user row: usage counter
    is_unlimited,       \* stored user row: unlimited flag
    chat_history,       \* the chat_history table, in commit order
    pc,                 \* position of each connection / HTTP client in its handler
    data,               \* the parsed message or request being processed
    current_user,       \* the user object loaded into the exchange's db session
    response_text,      \* the provider's reply held by the exchange
    chat,               \* the ChatHistory object returned by the exchange
    final_remaining,    \* the remaining value computed by the exchange
    sent,               \* last frame / HTTP response delivered to the client
    nmsgs,              \* messages / requests received so far, all clients together
    close_code,         \* code the connection was closed with, 0 while it is open
    cred,               \* the credential the connection's client presents
    fetched,            \* history: the store (counter, number of rows) when the exchange loaded the user
    trace,              \* history: the checks and calls of the current exchange, in order
    nframes,            \* history: frames sent for the current message
    wrote,              \* history: the counter the exchange's commit stored, -1 if none
    prev,               \* history: an earlier message of the connection ended in an error frame
    rl_key,             \* history: the context key of the exchange's rate limiter call
    user_id,            \* the id of the user the connection's handshake resolved
    count0,             \* history: stored usage counter in the initial state
    q_user,             \* quota policy alone: the user passed to check_usage_limit
    q_call,             \* quota policy alone: the last call and its result
    users,              \* the users table, in insertion order
    auth,               \* each auth client's request in progress and its response
    hits,               \* the rate limiter's counters in redis, one per key
    r_call              \* the rate limiter's last call and its outcome

store == <<ai_requests_count, is_unlimited, chat_history>>
exch == <<data, current_user, response_text, chat, final_remaining, fetched,
          wrote>>
wire == <<pc, sent, nframes, close_code>>
conn == <<cred, prev, user_id, rl_key>>
locals == <<wire, exch, conn, trace, nmsgs>>
side == <<users, auth, hits, r_call>>
env == <<AI_USAGE_LIMIT, count0, q_user, q_call, side>>
quota == <<q_user, q_call>>
vars == <<AI_USAGE_LIMIT, store, locals, count0, quota, side>>

None == [type |-> "none"]
NoUser == [id |-> 0, ai_requests_count |-> 0, is_unlimited |-> FALSE]
NoData == [model_name |-> "none", prompt |-> "none"]
NoCall == [called |-> FALSE]
NoRow == [id |-> 0, user_id |-> 0, prompt |-> "none", response |-> "none",
          model_name |-> "none"]
NoFetch == [count |-> 0, rows |-> 0]
NoKey == <<>>
NoToken == [sub |-> "none"]
NoResponse == [status |-> 0, detail |-> "none", token |-> NoToken]
NoAuth == [pc |-> "idle", op |-> "none",
           req |-> [login |-> "none", password |-> "none"],
           resp |-> NoResponse]

Max(a, b) == IF a >= b THEN a ELSE b

\* ------------------------------------------------------- pure functions

\* core/enums.py: is_provider_available
is_provider_available(model_name) ==
    IF model_name \in DOMAIN PROVIDER_AVAILABILITY
    THEN PROVIDER_AVAILABILITY[model_name] ELSE FALSE

\* chat_repository.py: check_usage_limit, returns <<allowed, remaining>>
check_usage_limit_stale(user) ==
    IF user.is_unlimited THEN <<TRUE, UNLIMITED>>
    ELSE LET remaining == Max(0, DEFAULT_AI_USAGE_LIMIT - user.ai_requests_count)
         IN  IF remaining = 0 THEN <<FALSE, 0>> ELSE <<TRUE, remaining>>

check_usage_limit_nounlimited(user) ==
    LET remaining == Max(0, AI_USAGE_LIMIT - user.ai_requests_count)
    IN  IF remaining = 0 THEN <<FALSE, 0>> ELSE <<TRUE, remaining>>

check_usage_limit_offbyone(user) ==
    IF user.is_unlimited THEN <<TRUE, UNLIMITED>>
    ELSE LET remaining == Max(0, AI_USAGE_LIMIT - user.ai_requests_count + 1)
         IN  IF remaining = 0 THEN <<FALSE, 0>> ELSE <<TRUE, remaining>>

check_usage_limit(user) ==
    IF user.is_unlimited THEN <<TRUE, UNLIMITED>>
    ELSE LET remaining == Max(0, AI_USAGE_LIMIT - user.ai_requests_count)
         IN  IF remaining = 0 THEN <<FALSE, 0>> ELSE <<TRUE, remaining>>


\* chat_repository.py:59 / :122, the counter the exchange writes back
incremented_twice(user) == user.ai_requests_count + 2

\* the same as an increment made in the store (SET count = count + 1)
incremented_in_store(user) == ai_requests_count[user.id] + 1

incremented(user) == user.ai_requests_count + 1

\* chat_repository.py:66-70 / :130-134
remaining_before_increment(user) ==
    IF user.is_unlimited THEN UNLIMITED
    ELSE Max(0, AI_USAGE_LIMIT - (user.ai_requests_count - 1))

remaining_of(user) ==
    IF user.is_unlimited THEN UNLIMITED
    ELSE Max(0, AI_USAGE_LIMIT - user.ai_requests_count)

\* chat_repository.py:53-54 / :116-117, the row the exchange inserts
ChatHistory(user, d, reply) ==
    [id |-> Len(chat_history) + 1, user_id |-> user.id,
     prompt |-> d.prompt, response |-> reply, model_name |-> d.model_name]

\* the store holds a row of user u
Stored(u) == u \in DOMAIN ai_requests_count

\* the stored user row, as a query loads it
UserRow(u) ==
    [id |-> u, ai_requests_count |-> ai_requests_count[u],
     is_unlimited |-> is_unlimited[u]]

\* history: what the store held when an exchange loaded its user
Snapshot == [count |-> ai_requests_count[UserId], rows |-> Len(chat_history)]

\* ----------------------------------------------------------------- frames
ErrorFrame(text, lim, detail) ==
    [type |-> "error", error |-> text, limit |-> lim, detail |-> detail]

SuccessFrame(row, remaining) ==
    [type |-> "success", prompt |-> row.prompt, response |-> row.response,
     created_at |-> row.id, model_name |-> row.model_name,
     remaining_requests |-> remaining]

HttpOk(reply, remaining) ==
    [type |-> "http", status |-> 200, response |-> reply,
     remaining_requests |-> remaining]

HttpError(code, text, lim, detail) ==
    [type |-> "http_error", status |-> code, error |-> text,
     limit |-> lim, detail |-> detail]

E_UNAVAILABLE == "This AI provider is currently unavailable due to free-tier limits."
E_LIMIT == "AI usage limit reached. You have used all {limit} free messages."
E_PLATFORM == "AI platform error: {detail}"
E_DATABASE == "Database error: {detail}"
E_RATE == "You have exceeded the rate limit. Please try again after {limit} seconds."
E_INVALID == "invalid message"

RATE_LIMIT_WINDOW == 60

Messages == [model_name : AIModels, prompt : Prompts]
Malformed == [model_name |-> "none", prompt |-> "malformed"]
NotJson == [model_name |-> "none", prompt |-> "not json"]

\* what a connection or an HTTP client holds when a message arrives
Fresh(p, d) ==
    /\ data' = [data EXCEPT ![p] = d]
    /\ current_user' = [current_user EXCEPT ![p] = NoUser]
    /\ response_text' = [response_text EXCEPT ![p] = "none"]
    /\ chat' = [chat EXCEPT ![p] = NoRow]
    /\ final_remaining' = [final_remaining EXCEPT ![p] = 0]
    /\ fetched' = [fetched EXCEPT ![p] = NoFetch]
    /\ wrote' = [wrote EXCEPT ![p] = -1]

\* history: one more check or call of the exchange
Did(p, steps) == trace' = [trace EXCEPT ![p] = @ \o steps]

\* the handler moves on without sending
Goto(p, next) ==
    /\ pc' = [pc EXCEPT ![p] = next]
    /\ UNCHANGED <<sent, nframes, close_code>>

\* an exchange ends by delivering one frame (or HTTP response)
Deliver(p, frame, next) ==
    /\ sent' = [sent EXCEPT ![p] = frame]
    /\ nframes' = [nframes EXCEPT ![p] = @ + 1]
    /\ pc' = [pc EXCEPT ![p] = next]
    /\ UNCHANGED close_code

\* the same with the frame never sent
SendJson_dropped(s, frame, next) == Goto(s, next)

\* websocket.send_json to a client that is there
SendJson(s, frame, next) == Deliver(s, frame, next)

\* the same with the handler going on after the close
Close_goes_on(s, code) ==
    /\ pc' = [pc EXCEPT ![s] = "ready"]
    /\ close_code' = [close_code EXCEPT ![s] = code]
    /\ Fresh(s, NoData)
    /\ sent' = [sent EXCEPT ![s] = None]
    /\ nframes' = [nframes EXCEPT ![s] = 0]
    /\ trace' = [trace EXCEPT ![s] = <<>>]
    /\ prev' = [prev EXCEPT ![s] = FALSE]
    /\ user_id' = [user_id EXCEPT ![s] = 0]
    /\ rl_key' = [rl_key EXCEPT ![s] = NoKey]

\* the handler returns, with or without a close of its own, and all it held
\* goes with it: api/chat.py:52, :57-58, :102-110
Close(s, code) ==
    /\ pc' = [pc EXCEPT ![s] = "closed"]
    /\ close_code' = [close_code EXCEPT ![s] = code]
    /\ Fresh(s, NoData)
    /\ sent' = [sent EXCEPT ![s] = None]
    /\ nframes' = [nframes EXCEPT ![s] = 0]
    /\ trace' = [trace EXCEPT ![s] = <<>>]
    /\ prev' = [prev EXCEPT ![s] = FALSE]
    /\ user_id' = [user_id EXCEPT ![s] = 0]
    /\ rl_key' = [rl_key EXCEPT ![s] = NoKey]

\* the client is gone: send_json or receive_json raises, which ends the
\* handler (api/chat.py:102-110)
ClientGone(s) == Close(s, WS_1000_NORMAL_CLOSURE)

\* an unexpected fault: `except Exception`, api/chat.py:105-110
Fault(s) == Close(s, WS_1011_INTERNAL_ERROR)

\* the error frames an exchange ends with: api/chat.py:71-76,
\* chat_repository.py:28-31, 36-39, 46-49, 75-77
RecoverableErrors == {E_RATE, E_UNAVAILABLE, E_LIMIT, E_PLATFORM, E_DATABASE}

\* history: the message that produced frame f ended in one of them
EndedInError(f) == f.type = "error" /\ f.error \in RecoverableErrors

\* ------------------------------------------------------------------- Init
Configs ==
    {[limit |-> 2, count |-> c, unlimited |-> FALSE] : c \in 0..3}
    \cup {[limit |-> 2, count |-> 3, unlimited |-> TRUE],
          [limit |-> DEFAULT_AI_USAGE_LIMIT, count |-> 5, unlimited |-> FALSE]}

InitLocals ==
    /\ pc = [p \in Procs |-> IF p \in WSConns THEN "connecting" ELSE "idle"]
    /\ data = [p \in Procs |-> NoData]
    /\ current_user = [p \in Procs |-> NoUser]
    /\ response_text = [p \in Procs |-> "none"]
    /\ chat = [p \in Procs |-> NoRow]
    /\ final_remaining = [p \in Procs |-> 0]
    /\ sent = [p \in Procs |-> None]
    /\ fetched = [p \in Procs |-> NoFetch]
    /\ nmsgs = 0
    /\ close_code = [p \in Procs |-> 0]
    /\ trace = [p \in Procs |-> <<>>]
    /\ nframes = [p \in Procs |-> 0]
    /\ wrote = [p \in Procs |-> -1]
    /\ prev = [p \in Procs |-> FALSE]
    /\ user_id = [p \in Procs |-> 0]
    /\ rl_key = [p \in Procs |-> NoKey]

\* nobody has signed up and the limiter has counted nothing
InitSide ==
    /\ users = <<>>
    /\ auth = [a \in AuthClients |-> NoAuth]
    /\ hits = <<>>
    /\ r_call = NoCall

InitStore ==
    /\ InitSide
    /\ \E cfg \in Configs :
        /\ AI_USAGE_LIMIT = cfg.limit
        /\ ai_requests_count = [u \in {UserId} |-> cfg.count]
        /\ is_unlimited = [u \in {UserId} |-> cfg.unlimited]
        /\ count0 = cfg.count
    /\ chat_history = <<>>
    /\ InitLocals
    /\ q_user = NoUser
    /\ q_call = NoCall

\* every connection is opened by a client with a valid token of the user
Init ==
    /\ InitStore
    /\ cred = [p \in Procs |-> IF p \in WSConns THEN "valid" ELSE "none"]

\* one connection is opened, with any credential
InitSession ==
    /\ InitStore
    /\ \E s \in WSConns, c \in Creds :
          cred = [p \in Procs |-> IF p = s THEN c ELSE "none"]

\* ------------------------------------------- WebSocket: websocket_endpoint

\* core/oauth2.py: authenticate_websocket reads the token of the handshake;
\* without a valid one it closes with policy-violation and returns nothing
authenticate_websocket(c) == c \in {"valid", "no_user"}

\* core/helpers.py: get_user_from_token finds the row of the token's email
get_user_from_token(c) ==
    IF c = "no_user" \/ ~Stored(UserId) THEN NoUser ELSE UserRow(UserId)

\* api/chat.py:48-52, accept and authenticate_websocket
WsConnect(s) ==
    /\ pc[s] = "connecting"
    /\ cred[s] \in Creds
    /\ IF authenticate_websocket(cred[s])
       THEN /\ Goto(s, "resolving")
            /\ UNCHANGED <<exch, prev, user_id, rl_key, trace>>
       ELSE Close(s, WS_1008_POLICY_VIOLATION)
    /\ UNCHANGED <<env, store, cred, nmsgs>>

\* the same without lines 56-58: a token of no stored user is let in
WsResolveUser_nocheck(s) ==
    /\ pc[s] = "resolving"
    /\ \/ /\ Goto(s, "ready")
          /\ user_id' = [user_id EXCEPT ![s] = get_user_from_token(cred[s]).id]
          /\ UNCHANGED <<exch, prev, rl_key, trace>>
       \/ Fault(s)
    /\ UNCHANGED <<env, store, cred, nmsgs>>

\* api/chat.py:54-59, the handshake's lookup of the user; a failing lookup
\* raises out of the handler and the server closes with internal-error
WsResolveUser(s) ==
    /\ pc[s] = "resolving"
    /\ \/ IF get_user_from_token(cred[s]) = NoUser
          THEN Close(s, WS_1008_POLICY_VIOLATION)
          ELSE /\ Goto(s, "ready")
               /\ user_id' = [user_id EXCEPT ![s] = get_user_from_token(cred[s]).id]
               /\ UNCHANGED <<exch, prev, rl_key, trace>>
       \/ Fault(s)
    /\ UNCHANGED <<env, store, cred, nmsgs>>

\* the same with the handler also reading the socket while it waits for the
\* provider
Receiving_while_busy(s) == pc[s] \in {"ready", "dispatch"}

\* api/chat.py:62-63: the handler reads the socket only at the top of its
\* loop
Receiving(s) == pc[s] = "ready"

\* what receive_json gets: a message, JSON of another shape, or no JSON
RawPayloads == Messages \cup {Malformed, NotJson}

\* api/chat.py:63-67 (and 105-110): receive_json, then parse_ws_message.
\* receive_json raises on text that is no JSON, which the handler's
\* `except Exception` answers by closing with internal-error;
\* parse_ws_message answers JSON of the wrong shape with an error frame.
WsReceive(s) ==
    /\ Receiving(s)
    /\ nmsgs < MaxMsgs
    /\ nmsgs' = nmsgs + 1
    /\ \E raw \in RawPayloads :
        \/ /\ raw \in Messages
           /\ Fresh(s, raw)
           /\ sent' = [sent EXCEPT ![s] = None]
           /\ nframes' = [nframes EXCEPT ![s] = 0]
           /\ trace' = [trace EXCEPT ![s] = <<>>]
           /\ prev' = [prev EXCEPT ![s] = @ \/ EndedInError(sent[s])]
           /\ rl_key' = [rl_key EXCEPT ![s] = NoKey]
           /\ UNCHANGED user_id
           /\ pc' = [pc EXCEPT ![s] = "ratelimit"]
           /\ UNCHANGED close_code
        \/ /\ raw = Malformed
           /\ Fresh(s, raw)
           /\ sent' = [sent EXCEPT ![s] = ErrorFrame(E_INVALID, 0, "none")]
           /\ nframes' = [nframes EXCEPT ![s] = 1]
           /\ trace' = [trace EXCEPT ![s] = <<>>]
           /\ prev' = [prev EXCEPT ![s] = @ \/ EndedInError(sent[s])]
           /\ rl_key' = [rl_key EXCEPT ![s] = NoKey]
           /\ UNCHANGED user_id
           /\ UNCHANGED <<pc, close_code>>
        \/ /\ raw = Malformed
           /\ ClientGone(s)
        \/ /\ raw = NotJson
           /\ Fault(s)
    /\ UNCHANGED <<env, store, cred>>

\* api/chat.py:63 and 102-103: the client went away, receive_json raises
\* WebSocketDisconnect
WsDisconnect(s) ==
    /\ Receiving(s)
    /\ ClientGone(s)
    /\ UNCHANGED <<env, store, cred, nmsgs>>

\* the same with one key for every user
context_key_of_nobody(id) == <<"user", 0>>

\* api/chat.py:70, f"user:{user_id}"
context_key(id) == <<"user", id>>

\* the same without the `continue` of line 76: a rejected message goes on
WsRateLimit_nocontinue(s) ==
    /\ pc[s] = "ratelimit"
    /\ \/ /\ Did(s, <<"ratelimit">>)
          /\ rl_key' = [rl_key EXCEPT ![s] = context_key(user_id[s])]
          /\ \E admitted \in BOOLEAN :
              IF admitted
              THEN Goto(s, "fetch")
              ELSE SendJson(s, ErrorFrame(E_RATE, RATE_LIMIT_WINDOW, "none"),
                            "fetch")
          /\ UNCHANGED <<exch, prev, user_id>>
       \/ ClientGone(s)
    /\ UNCHANGED <<env, store, cred, nmsgs>>

\* api/chat.py:69-76, the shared rate limiter admits or rejects the message
WsRateLimit(s) ==
    /\ pc[s] = "ratelimit"
    /\ \/ /\ Did(s, <<"ratelimit">>)
          /\ rl_key' = [rl_key EXCEPT ![s] = context_key(user_id[s])]
          /\ \E admitted \in BOOLEAN :
              IF admitted
              THEN Goto(s, "fetch")
              ELSE SendJson(s, ErrorFrame(E_RATE, RATE_LIMIT_WINDOW, "none"),
                            "ready")
          /\ UNCHANGED <<exch, prev, user_id>>
       \/ ClientGone(s)
    /\ UNCHANGED <<env, store, cred, nmsgs>>

\* the same with the user row as it was stored when the server started
WsFetchUser_cached(s) ==
    /\ pc[s] = "fetch"
    /\ \/ /\ current_user' = [current_user EXCEPT ![s] =
                                [UserRow(UserId) EXCEPT !.ai_requests_count = count0]]
          /\ fetched' = [fetched EXCEPT ![s] = Snapshot]
          /\ Did(s, <<"fetch">>)
          /\ Goto(s, "gates")
          /\ UNCHANGED <<data, response_text, chat, final_remaining, wrote,
                         prev, user_id, rl_key>>
       \/ Fault(s)
    /\ UNCHANGED <<env, store, cred, nmsgs>>

\* the same without the break of line 84: the loop goes on after the close
WsFetchUser_nobreak(s) ==
    /\ pc[s] = "fetch"
    /\ \/ IF get_user_from_token(cred[s]) = NoUser
          THEN Close_goes_on(s, WS_1008_POLICY_VIOLATION)
          ELSE /\ current_user' =
                     [current_user EXCEPT ![s] = get_user_from_token(cred[s])]
               /\ fetched' = [fetched EXCEPT ![s] = Snapshot]
               /\ Did(s, <<"fetch">>)
               /\ Goto(s, "gates")
               /\ UNCHANGED <<data, response_text, chat, final_remaining,
                              wrote, prev, user_id, rl_key>>
       \/ Fault(s)
    /\ UNCHANGED <<env, store, cred, nmsgs>>

\* api/chat.py:78-84 (and 105-110): a new db session loads the user row for
\* every message; a lookup that finds no row closes the connection and leaves
\* the loop, a failing query is an unexpected fault
WsFetchUser(s) ==
    /\ pc[s] = "fetch"
    /\ \/ IF get_user_from_token(cred[s]) = NoUser
          THEN Close(s, WS_1008_POLICY_VIOLATION)
          ELSE /\ current_user' =
                     [current_user EXCEPT ![s] = get_user_from_token(cred[s])]
               /\ fetched' = [fetched EXCEPT ![s] = Snapshot]
               /\ Did(s, <<"fetch">>)
               /\ Goto(s, "gates")
               /\ UNCHANGED <<data, response_text, chat, final_remaining,
                              wrote, prev, user_id, rl_key>>
       \/ Fault(s)
    /\ UNCHANGED <<env, store, cred, nmsgs>>

\* ---------------------------- chat_repository.py: generate_model_response

\* the same with the quota check moved in front of the availability check
GenGates_quota_first(s) ==
    /\ pc[s] = "gates" /\ s \in WSConns
    /\ \/ /\ IF ~check_usage_limit(current_user[s])[1]
             THEN /\ Did(s, <<"quota">>)
                  /\ SendJson(s, ErrorFrame(E_LIMIT, AI_USAGE_LIMIT, "none"),
                              "ready")
             ELSE IF ~is_provider_available(data[s].model_name)
             THEN /\ Did(s, <<"quota", "available">>)
                  /\ SendJson(s, ErrorFrame(E_UNAVAILABLE, 0, "none"), "ready")
             ELSE /\ Did(s, <<"quota", "available">>)
                  /\ Goto(s, "dispatch")
          /\ UNCHANGED <<exch, prev, user_id, rl_key>>
       \/ /\ \/ ~is_provider_available(data[s].model_name)
             \/ ~check_usage_limit(current_user[s])[1]
          /\ ClientGone(s)
    /\ UNCHANGED <<env, store, cred, nmsgs>>

\* lines 26-40: availability, then quota
GenGates(s) ==
    /\ pc[s] = "gates" /\ s \in WSConns
    /\ \/ /\ IF ~is_provider_available(data[s].model_name)
             THEN /\ Did(s, <<"available">>)
                  /\ SendJson(s, ErrorFrame(E_UNAVAILABLE, 0, "none"), "ready")
             ELSE IF ~check_usage_limit(current_user[s])[1]
             THEN /\ Did(s, <<"available", "quota">>)
                  /\ SendJson(s, ErrorFrame(E_LIMIT, AI_USAGE_LIMIT, "none"),
                              "ready")
             ELSE /\ Did(s, <<"available", "quota">>)
                  /\ Goto(s, "dispatch")
          /\ UNCHANGED <<exch, prev, user_id, rl_key>>
       \/ /\ \/ ~is_provider_available(data[s].model_name)
             \/ ~check_usage_limit(current_user[s])[1]
          /\ ClientGone(s)
    /\ UNCHANGED <<env, store, cred, nmsgs>>

\* the same with the counter written although the provider raised
GenDispatch_counts(s) ==
    /\ pc[s] = "dispatch" /\ s \in WSConns
    /\ \/ /\ Did(s, <<"resolve", "dispatch">>)
          /\ \/ \E reply \in Replies :
                  /\ response_text' = [response_text EXCEPT ![s] = reply]
                  /\ Goto(s, "commit")
                  /\ UNCHANGED store
             \/ \E e \in Failures :
                  /\ SendJson(s, ErrorFrame(E_PLATFORM, 0, e), "ready")
                  /\ ai_requests_count' = [ai_requests_count EXCEPT
                         ![UserId] = incremented(current_user[s])]
                  /\ UNCHANGED <<response_text, is_unlimited, chat_history>>
          /\ UNCHANGED <<data, current_user, chat, final_remaining, fetched,
                         wrote, prev, user_id, rl_key>>
       \/ /\ ClientGone(s)
          /\ UNCHANGED store
    /\ UNCHANGED <<env, cred, nmsgs>>

\* lines 42-50: get_ai_platform, then platform.chat(prompt) answers or raises
\* the same with a provider failure never handed back to the handler
GenDispatch_hangs(s) ==
    /\ pc[s] = "dispatch" /\ s \in WSConns
    /\ \/ /\ Did(s, <<"resolve", "dispatch">>)
          /\ \/ \E reply \in Replies :
                  /\ response_text' = [response_text EXCEPT ![s] = reply]
                  /\ Goto(s, "commit")
             \/ \E e \in Failures :
                  /\ Goto(s, "waiting")
                  /\ UNCHANGED response_text
          /\ UNCHANGED <<data, current_user, chat, final_remaining, fetched,
                         wrote, prev, user_id, rl_key>>
       \/ ClientGone(s)
    /\ UNCHANGED <<env, store, cred, nmsgs>>

GenDispatch(s) ==
    /\ pc[s] = "dispatch" /\ s \in WSConns
    /\ \/ /\ Did(s, <<"resolve", "dispatch">>)
          /\ \/ \E reply \in Replies :
                  /\ response_text' = [response_text EXCEPT ![s] = reply]
                  /\ Goto(s, "commit")
             \/ \E e \in Failures :
                  /\ SendJson(s, ErrorFrame(E_PLATFORM, 0, e), "ready")
                  /\ UNCHANGED response_text
          /\ UNCHANGED <<data, current_user, chat, final_remaining, fetched,
                         wrote, prev, user_id, rl_key>>
       \/ ClientGone(s)
    /\ UNCHANGED <<env, store, cred, nmsgs>>

\* the same without the rollback of line 74: a failed commit keeps the row
GenCommit_norollback(s) ==
    /\ pc[s] = "commit" /\ s \in WSConns
    /\ LET user == current_user[s]
           row == ChatHistory(user, data[s], response_text[s])
       IN \/ /\ chat_history' = Append(chat_history, row)
             /\ ai_requests_count' =
                    IF user.is_unlimited THEN ai_requests_count
                    ELSE [ai_requests_count EXCEPT ![user.id] = incremented(user)]
             /\ chat' = [chat EXCEPT ![s] = row]
             /\ wrote' = [wrote EXCEPT ![s] = ai_requests_count'[user.id]]
             /\ Did(s, <<"commit">>)
             /\ Goto(s, "refresh")
             /\ UNCHANGED <<is_unlimited, data, current_user, response_text,
                            final_remaining, fetched, prev, user_id, rl_key>>
          \/ /\ SendJson(s, ErrorFrame(E_DATABASE, 0, "commit failed"), "ready")
             /\ Did(s, <<"commit">>)
             /\ chat_history' = Append(chat_history, row)
             /\ UNCHANGED <<ai_requests_count, is_unlimited, exch, prev, user_id, rl_key>>
          \/ /\ ClientGone(s)
             /\ chat_history' = Append(chat_history, row)
             /\ UNCHANGED <<ai_requests_count, is_unlimited>>
    /\ UNCHANGED <<env, cred, nmsgs>>

\* the same with the row kept when the client is gone before the commit is
\* answered
GenCommit_partial(s) ==
    /\ pc[s] = "commit" /\ s \in WSConns
    /\ LET user == current_user[s]
           row == ChatHistory(user, data[s], response_text[s])
       IN \/ /\ chat_history' = Append(chat_history, row)
             /\ ai_requests_count' =
                    IF user.is_unlimited THEN ai_requests_count
                    ELSE [ai_requests_count EXCEPT ![user.id] = incremented(user)]
             /\ chat' = [chat EXCEPT ![s] = row]
             /\ wrote' = [wrote EXCEPT ![s] = ai_requests_count'[user.id]]
             /\ Did(s, <<"commit">>)
             /\ Goto(s, "refresh")
             /\ UNCHANGED <<is_unlimited, data, current_user, response_text,
                            final_remaining, fetched, prev, user_id, rl_key>>
          \/ /\ SendJson(s, ErrorFrame(E_DATABASE, 0, "commit failed"), "ready")
             /\ Did(s, <<"commit">>)
             /\ UNCHANGED <<store, exch, prev, user_id, rl_key>>
          \/ /\ ClientGone(s)
             /\ chat_history' = Append(chat_history, row)
             /\ UNCHANGED <<ai_requests_count, is_unlimited>>
    /\ UNCHANGED <<env, cred, nmsgs>>

\* the same with the row and the counter left for a later commit
GenCommit_defers(s) ==
    /\ pc[s] = "commit" /\ s \in WSConns
    /\ LET user == current_user[s]
           row == ChatHistory(user, data[s], response_text[s])
       IN \/ /\ chat' = [chat EXCEPT ![s] = row]
             /\ wrote' = [wrote EXCEPT ![s] = incremented(user)]
             /\ Did(s, <<"commit">>)
             /\ Goto(s, "refresh")
             /\ UNCHANGED <<store, data, current_user, response_text,
                            final_remaining, fetched, prev, user_id, rl_key>>
          \/ /\ ClientGone(s)
             /\ UNCHANGED store
    /\ UNCHANGED <<env, cred, nmsgs>>

\* lines 52-62 (and 73-78): insert the row, write the counter back, commit;
\* a failed commit is rolled back and answered with an error frame
GenCommit(s) ==
    /\ pc[s] = "commit" /\ s \in WSConns
    /\ LET user == current_user[s]
           row == ChatHistory(user, data[s], response_text[s])
       IN \/ /\ chat_history' = Append(chat_history, row)
             /\ ai_requests_count' =
                    IF user.is_unlimited THEN ai_requests_count
                    ELSE [ai_requests_count EXCEPT ![user.id] = incremented(user)]
             /\ chat' = [chat EXCEPT ![s] = row]
             /\ wrote' = [wrote EXCEPT ![s] = ai_requests_count'[user.id]]
             /\ Did(s, <<"commit">>)
             /\ Goto(s, "refresh")
             /\ UNCHANGED <<is_unlimited, data, current_user, response_text,
                            final_remaining, fetched, prev, user_id, rl_key>>
          \/ /\ SendJson(s, ErrorFrame(E_DATABASE, 0, "commit failed"), "ready")
             /\ Did(s, <<"commit">>)
             /\ UNCHANGED <<store, exch, prev, user_id, rl_key>>
          \/ /\ ClientGone(s)
             /\ UNCHANGED store
    /\ UNCHANGED <<env, cred, nmsgs>>

\* the same without the except of lines 73-78: a failing refresh raises out
\* of generate_model_response and ends the handler
GenRefresh_raises(s) ==
    /\ pc[s] = "refresh" /\ s \in WSConns
    /\ \/ /\ current_user' = [current_user EXCEPT ![s] = UserRow(UserId)]
          /\ final_remaining' =
                [final_remaining EXCEPT ![s] = remaining_of(UserRow(UserId))]
          /\ Did(s, <<"refresh">>)
          /\ Goto(s, "send")
          /\ UNCHANGED <<data, response_text, chat, fetched, wrote, prev, user_id, rl_key>>
       \/ /\ sent' = [sent EXCEPT ![s] =
                         ErrorFrame(E_DATABASE, 0, "refresh failed")]
          /\ nframes' = [nframes EXCEPT ![s] = @ + 1]
          /\ pc' = [pc EXCEPT ![s] = "closed"]
          /\ close_code' = [close_code EXCEPT ![s] = WS_1011_INTERNAL_ERROR]
          /\ Did(s, <<"refresh">>)
          /\ UNCHANGED <<exch, prev, user_id, rl_key>>
       \/ ClientGone(s)
    /\ UNCHANGED <<env, store, cred, nmsgs>>

\* lines 63-72 (and 73-78): re-read the row and the user, compute remaining
GenRefresh(s) ==
    /\ pc[s] = "refresh" /\ s \in WSConns
    /\ \/ /\ current_user' = [current_user EXCEPT ![s] = UserRow(UserId)]
          /\ final_remaining' =
                [final_remaining EXCEPT ![s] = remaining_of(UserRow(UserId))]
          /\ Did(s, <<"refresh">>)
          /\ Goto(s, "send")
          /\ UNCHANGED <<data, response_text, chat, fetched, wrote, prev, user_id, rl_key>>
       \/ /\ SendJson(s, ErrorFrame(E_DATABASE, 0, "refresh failed"), "ready")
          /\ Did(s, <<"refresh">>)
          /\ UNCHANGED <<exch, prev, user_id, rl_key>>
       \/ ClientGone(s)
    /\ UNCHANGED <<env, store, cred, nmsgs>>

\* api/chat.py:86-100 (and 105-110): the refresh of line 91, then the success
\* payload; a failing refresh is an unexpected fault
WsSend(s) ==
    /\ pc[s] = "send"
    /\ \/ /\ current_user' = [current_user EXCEPT ![s] = UserRow(UserId)]
          /\ SendJson(s, SuccessFrame(chat[s], final_remaining[s]), "ready")
          /\ UNCHANGED <<data, response_text, chat, final_remaining, fetched,
                         wrote, prev, user_id, rl_key, trace>>
       \/ ClientGone(s)
       \/ Fault(s)
    /\ UNCHANGED <<env, store, cred, nmsgs>>

\* ------------------------------------------ HTTP: POST /ai/chat and chat()

\* api/chat.py:134-137: the request arrives, get_current_user loads the user
HttpRequest(h) ==
    /\ pc[h] = "idle"
    /\ nmsgs < MaxMsgs
    /\ nmsgs' = nmsgs + 1
    /\ \E d \in Messages :
        /\ data' = [data EXCEPT ![h] = d]
        /\ current_user' = [current_user EXCEPT ![h] = UserRow(UserId)]
        /\ fetched' = [fetched EXCEPT ![h] = Snapshot]
        /\ response_text' = [response_text EXCEPT ![h] = "none"]
        /\ chat' = [chat EXCEPT ![h] = NoRow]
        /\ final_remaining' = [final_remaining EXCEPT ![h] = 0]
        /\ wrote' = [wrote EXCEPT ![h] = -1]
    /\ sent' = [sent EXCEPT ![h] = None]
    /\ nframes' = [nframes EXCEPT ![h] = 0]
    /\ pc' = [pc EXCEPT ![h] = "gates"]
    /\ trace' = [trace EXCEPT ![h] = <<"fetch">>]
    /\ UNCHANGED <<env, store, conn, close_code>>

\* the same with the quota check moved in front of the availability check
ChatGates_quota_first(h) ==
    /\ pc[h] = "gates" /\ h \in HTTPClients
    /\ IF ~check_usage_limit(current_user[h])[1]
       THEN /\ Did(h, <<"quota">>)
            /\ Deliver(h, HttpError(403, E_LIMIT, AI_USAGE_LIMIT, "none"), "idle")
       ELSE IF ~is_provider_available(data[h].model_name)
       THEN /\ Did(h, <<"quota", "available">>)
            /\ Deliver(h, HttpError(403, E_UNAVAILABLE, 0, "none"), "idle")
       ELSE /\ Did(h, <<"quota", "available">>)
            /\ Goto(h, "dispatch")
    /\ UNCHANGED <<env, store, exch, conn, nmsgs>>

\* chat_repository.py:91-105
ChatGates(h) ==
    /\ pc[h] = "gates" /\ h \in HTTPClients
    /\ IF ~is_provider_available(data[h].model_name)
       THEN /\ Did(h, <<"available">>)
            /\ Deliver(h, HttpError(403, E_UNAVAILABLE, 0, "none"), "idle")
       ELSE IF ~check_usage_limit(current_user[h])[1]
       THEN /\ Did(h, <<"available", "quota">>)
            /\ Deliver(h, HttpError(403, E_LIMIT, AI_USAGE_LIMIT, "none"), "idle")
       ELSE /\ Did(h, <<"available", "quota">>)
            /\ Goto(h, "dispatch")
    /\ UNCHANGED <<env, store, exch, conn, nmsgs>>

\* chat_repository.py:107-113
ChatDispatch(h) ==
    /\ pc[h] = "dispatch" /\ h \in HTTPClients
    /\ Did(h, <<"resolve", "dispatch">>)
    /\ \/ \E reply \in Replies :
            /\ response_text' = [response_text EXCEPT ![h] = reply]
            /\ Goto(h, "commit")
       \/ \E e \in Failures :
            /\ Deliver(h, HttpError(500, E_PLATFORM, 0, e), "idle")
            /\ UNCHANGED response_text
    /\ UNCHANGED <<env, store, conn, nmsgs, data, current_user, chat,
                   final_remaining, fetched, wrote>>

\* chat_repository.py:115-125 (and 137-142)
ChatCommit(h) ==
    /\ pc[h] = "commit" /\ h \in HTTPClients
    /\ Did(h, <<"commit">>)
    /\ LET user == current_user[h]
           row == ChatHistory(user, data[h], response_text[h])
       IN \/ /\ chat_history' = Append(chat_history, row)
             /\ ai_requests_count' =
                    IF user.is_unlimited THEN ai_requests_count
                    ELSE [ai_requests_count EXCEPT ![user.id] = incremented(user)]
             /\ chat' = [chat EXCEPT ![h] = row]
             /\ wrote' = [wrote EXCEPT ![h] = ai_requests_count'[user.id]]
             /\ Goto(h, "refresh")
             /\ UNCHANGED is_unlimited
          \/ /\ Deliver(h, HttpError(500, E_DATABASE, 0, "commit failed"), "idle")
             /\ UNCHANGED <<store, chat, wrote>>
    /\ UNCHANGED <<env, conn, nmsgs, data, current_user, response_text,
                   final_remaining, fetched>>

\* chat_repository.py:126-136 (and 137-142), api/chat.py:138
ChatRefresh(h) ==
    /\ pc[h] = "refresh" /\ h \in HTTPClients
    /\ Did(h, <<"refresh">>)
    /\ \/ /\ current_user' = [current_user EXCEPT ![h] = UserRow(UserId)]
          /\ final_remaining' =
                [final_remaining EXCEPT ![h] = remaining_of(UserRow(UserId))]
          /\ Deliver(h, HttpOk(response_text[h], remaining_of(UserRow(UserId))),
                     "idle")
       \/ /\ Deliver(h, HttpError(500, E_DATABASE, 0, "refresh failed"), "idle")
          /\ UNCHANGED <<current_user, final_remaining>>
    /\ UNCHANGED <<env, store, conn, nmsgs, data, response_text, chat,
                   fetched, wrote>>

\* ------------------------------------------------- GET /ai/chat-history

\* the same without the user_id condition of the query
get_chat_history_of_anyone(model_name, user) ==
    SelectSeq(chat_history, LAMBDA r : r.model_name = model_name)

\* chat_repository.py:81-86, the rows of the user made with the provider
get_chat_history(model_name, user) ==
    SelectSeq(chat_history,
              LAMBDA r : r.user_id = user.id /\ r.model_name = model_name)

\* api/chat.py:113-130, the response of the endpoint
ChatHistoryResponse(rows, user) ==
    [type |-> "history", chat |-> rows,
     usage_info |-> [remaining_requests |-> remaining_of(user),
                     limit |-> AI_USAGE_LIMIT]]

\* the same with the rows it returned taken out of the table
GetChatHistory_consumes(h, u, m) ==
    /\ pc[h] = "idle"
    /\ nmsgs < MaxMsgs
    /\ nmsgs' = nmsgs + 1
    /\ Fresh(h, [model_name |-> m, prompt |-> "none"])
    /\ sent' = [sent EXCEPT ![h] =
                   ChatHistoryResponse(get_chat_history(m, UserRow(u)),
                                       UserRow(u))]
    /\ nframes' = [nframes EXCEPT ![h] = 1]
    /\ trace' = [trace EXCEPT ![h] = <<>>]
    /\ chat_history' = SelectSeq(chat_history,
                           LAMBDA r : ~(r.user_id = u /\ r.model_name = m))
    /\ UNCHANGED <<env, ai_requests_count, is_unlimited, conn, pc, close_code>>

\* api/chat.py:113-130: get_current_user loads user u, the query reads the
\* rows, and the response carries them with the user's remaining quota
GetChatHistory(h, u, m) ==
    /\ pc[h] = "idle"
    /\ nmsgs < MaxMsgs
    /\ nmsgs' = nmsgs + 1
    /\ data' = [data EXCEPT ![h] = [model_name |-> m, prompt |-> "none"]]
    /\ current_user' = [current_user EXCEPT ![h] = UserRow(u)]
    /\ response_text' = [response_text EXCEPT ![h] = "none"]
    /\ chat' = [chat EXCEPT ![h] = NoRow]
    /\ final_remaining' = [final_remaining EXCEPT ![h] = 0]
    /\ fetched' = [fetched EXCEPT ![h] = NoFetch]
    /\ wrote' = [wrote EXCEPT ![h] = -1]
    /\ sent' = [sent EXCEPT ![h] =
                   ChatHistoryResponse(get_chat_history(m, UserRow(u)),
                                       UserRow(u))]
    /\ nframes' = [nframes EXCEPT ![h] = 1]
    /\ trace' = [trace EXCEPT ![h] = <<>>]
    /\ UNCHANGED <<env, store, conn, pc, close_code>>

\* ------------------------------------------------------------------- Next
WsNext(s) ==
    \/ WsConnect(s)
    \/ WsResolveUser(s)
    \/ WsReceive(s)
    \/ WsDisconnect(s)
    \/ WsRateLimit(s)
    \/ WsFetchUser(s)
    \/ GenGates(s)
    \/ GenDispatch(s)
    \/ GenCommit(s)
    \/ GenRefresh(s)
    \/ WsSend(s)

HttpNext(h) ==
    \/ HttpRequest(h)
    \/ ChatGates(h)
    \/ ChatDispatch(h)
    \/ ChatCommit(h)
    \/ ChatRefresh(h)

Next ==
    \/ \E s \in WSConns : WsNext(s)
    \/ \E h \in HTTPClients : HttpNext(h)

Spec == Init /\ [][Next]_vars

\* the life of one connection beside the HTTP client, which also reads the
\* history
NextSession ==
    \/ Next
    \/ \E h \in HTTPClients, u \in DOMAIN ai_requests_count, m \in AIModels :
          GetChatHistory(h, u, m)

SpecSession == InitSession /\ [][NextSession]_vars

\* the steps of the handler between the receipt of a message and the frame
\* that answers it (api/chat.py:69-100): none of them waits for the client
Processing(s) ==
    pc[s] \in {"ratelimit", "fetch", "gates", "dispatch", "commit", "refresh",
               "send"}

HandlerStep(s) ==
    \/ WsRateLimit(s)
    \/ WsFetchUser(s)
    \/ GenGates(s)
    \/ GenDispatch(s)
    \/ GenCommit(s)
    \/ GenRefresh(s)
    \/ WsSend(s)

\* the same session with the handler scheduled: the event loop resumes a
\* coroutine whose await is over, the limiter and the store answer, and the
\* provider's client returns or raises (its timeout raises as any other
\* failure does, chat_repository.py:44-50)
SpecSessionLive ==
    SpecSession /\ \A s \in WSConns : WF_vars(HandlerStep(s))

\* --------------------------------- connections of one worker process
\* The handler is a coroutine: the connections served by one worker process
\* share its event loop, which runs one of them until its next await.  After
\* the handshake's authenticate_websocket the lookup of the user is plain
\* code (api/chat.py:54-59), and after the await of the limiter (line 70)
\* so are the load of the user, the checks, platform.chat(data.prompt)
\* (chat_repository.py:45, called without await), commit and refresh, up to
\* the next send_json.  The HTTP chat endpoint is a plain `def` and runs on
\* the thread pool.

\* connection r is running between two awaits
Running(r) ==
    pc[r] \in {"resolving", "fetch", "gates", "dispatch", "commit", "refresh",
               "send"}

\* the event loop can run connection s: no other connection holds it
LoopFree(s) == \A r \in WSConns \ {s} : ~Running(r)

WorkerNext(s) ==
    \/ LoopFree(s) /\ WsConnect(s)
    \/ LoopFree(s) /\ WsResolveUser(s)
    \/ LoopFree(s) /\ WsReceive(s)
    \/ LoopFree(s) /\ WsDisconnect(s)
    \/ LoopFree(s) /\ WsRateLimit(s)
    \/ LoopFree(s) /\ WsFetchUser(s)
    \/ LoopFree(s) /\ GenGates(s)
    \/ LoopFree(s) /\ GenDispatch(s)
    \/ LoopFree(s) /\ GenCommit(s)
    \/ LoopFree(s) /\ GenRefresh(s)
    \/ LoopFree(s) /\ WsSend(s)

NextWorker ==
    \/ \E s \in WSConns : WorkerNext(s)
    \/ \E h \in HTTPClients : HttpNext(h)

SpecWorker == Init /\ [][NextWorker]_vars

\* ------------------------------------- a user deleted after connecting
\* The row of the user is removed from the store while connections of the
\* user are open.  Nothing in src/ deletes a user: the deletion is the
\* store's, made between exchanges (what a commit on a deleted row does is
\* decided by the models' keys, which src/ does not show).  The rows of
\* chat_history are never deleted.

\* an exchange holds the row it loaded
HoldsRow(p) == pc[p] \in {"gates", "dispatch", "commit", "refresh", "send"}

DeleteUser(u) ==
    /\ Stored(u)
    /\ \A p \in Procs : ~HoldsRow(p)
    /\ ai_requests_count' =
           [v \in DOMAIN ai_requests_count \ {u} |-> ai_requests_count[v]]
    /\ is_unlimited' = [v \in DOMAIN is_unlimited \ {u} |-> is_unlimited[v]]
    /\ UNCHANGED <<chat_history, env, locals>>

NextDeletion ==
    \/ \E s \in WSConns : WsNext(s)
    \/ \E u \in Users : DeleteUser(u)

SpecDeletion == Init /\ [][NextDeletion]_vars

\* ------------------------------------------------- the history query alone
\* get_chat_history applied to every table of a bounded length that holds
\* rows of two users and of both providers.

RowKinds == [user_id : Users, model_name : AIModels]

Tables ==
    UNION {[1..n -> RowKinds] : n \in 0..MaxRows}

\* the rows of a table, numbered in insertion order
StoredRows(t) ==
    [i \in DOMAIN t |->
        [id |-> i, user_id |-> t[i].user_id, prompt |-> "Test prompt",
         response |-> "AI Response", model_name |-> t[i].model_name]]

InitHistory ==
    /\ AI_USAGE_LIMIT = DEFAULT_AI_USAGE_LIMIT
    /\ ai_requests_count = [u \in Users |-> 0]
    /\ is_unlimited = [u \in Users |-> FALSE]
    /\ count0 = 0
    /\ \E t \in Tables : chat_history = StoredRows(t)
    /\ InitLocals
    /\ cred = [p \in Procs |-> "none"]
    /\ q_user = NoUser
    /\ q_call = NoCall
    /\ InitSide

NextHistory ==
    \E h \in HTTPClients, u \in Users, m \in AIModels : GetChatHistory(h, u, m)

SpecHistory == InitHistory /\ [][NextHistory]_vars

\* -------------------------------- auth_repository.py: signup and login
\* Two clients sign up and log in.  A signup reads the users table for its
\* checks and inserts in a later round trip, so the signups of two clients
\* interleave; the table itself refuses a second row with the same email or
\* username, which the insert meets as a failed commit.

Emails == {"newuser@example.com", "user@example.com"}
Usernames == {"newuser", "newuser2"}
Passwords == {"password123", "wrongpassword"}
Captchas == {"ok", "failed"}

SignUpSchema == [email : Emails, username : Usernames, password : Passwords]
LoginSchema == [login : Emails \cup Usernames, password : Passwords]

E_CAPTCHA == "reCAPTCHA verification failed. Please try again."
E_EMAIL == "Email already registered"
E_USERNAME == "Username already registered"
E_UNEXPECTED == "An unexpected error occurred: {detail}"
E_NOT_FOUND == "User not found"
E_PASSWORD == "Incorrect password"

\* an HTTPException, and the two successful responses of the routes
Rejected(code, text) == [status |-> code, detail |-> text, token |-> NoToken]
Created == [status |-> 201, detail |-> "User created successfully",
            token |-> NoToken]
LoggedIn(t) == [status |-> 200, detail |-> "Login successful", token |-> t]

\* core/hashing.py: the stored password is a hash, which verify_password
\* compares with the hash of the password given
hash_password(p) == <<"hash", p>>
verify_password(p, hashed) == hashed = hash_password(p)

\* core/token.py: the token carries the subject it was created for
create_access_token(d) == [sub |-> d.sub]

\* core/helpers.py: a row with that email / that username is stored
check_email_exists(email) ==
    \E i \in DOMAIN users : users[i].email = email
check_username_exists(username) ==
    \E i \in DOMAIN users : users[i].username = username

\* the request leaves the handler with a response
Respond(a, response) ==
    auth' = [auth EXCEPT ![a].pc = "idle", ![a].resp = response]

\* the same with the username checked before the email
SignupCheck_username_first(a) ==
    /\ auth[a].pc = "idle"
    /\ \E d \in SignUpSchema, captcha \in Captchas :
          auth' = [auth EXCEPT ![a] =
            [pc |-> IF captcha = "ok" /\ ~check_email_exists(d.email)
                       /\ ~check_username_exists(d.username)
                    THEN "checked" ELSE "idle",
             op |-> "signup", req |-> d,
             resp |-> IF captcha # "ok" THEN Rejected(400, E_CAPTCHA)
                      ELSE IF check_username_exists(d.username)
                      THEN Rejected(400, E_USERNAME)
                      ELSE IF check_email_exists(d.email)
                      THEN Rejected(400, E_EMAIL)
                      ELSE NoResponse]]
    /\ UNCHANGED <<AI_USAGE_LIMIT, store, locals, count0, quota, users,
                   hits, r_call>>

\* auth_repository.py:14-28: recaptcha, then the email check, then the
\* username check
SignupCheck(a) ==
    /\ auth[a].pc = "idle"
    /\ \E d \in SignUpSchema, captcha \in Captchas :
          auth' = [auth EXCEPT ![a] =
            [pc |-> IF captcha = "ok" /\ ~check_email_exists(d.email)
                       /\ ~check_username_exists(d.username)
                    THEN "checked" ELSE "idle",
             op |-> "signup", req |-> d,
             resp |-> IF captcha # "ok" THEN Rejected(400, E_CAPTCHA)
                      ELSE IF check_email_exists(d.email)
                      THEN Rejected(400, E_EMAIL)
                      ELSE IF check_username_exists(d.username)
                      THEN Rejected(400, E_USERNAME)
                      ELSE NoResponse]]
    /\ UNCHANGED <<AI_USAGE_LIMIT, store, locals, count0, quota, users,
                   hits, r_call>>

\* auth_repository.py:30-45: the user is built with the hashed password and
\* inserted; a commit that fails, as it does on a row the table refuses, is
\* rolled back and answered with 500
SignupCommit(a) ==
    /\ auth[a].pc = "checked"
    /\ LET d == auth[a].req
           user == [id |-> Len(users) + 1, email |-> d.email,
                    username |-> d.username,
                    password |-> hash_password(d.password)]
       IN \/ /\ ~check_email_exists(d.email)
             /\ ~check_username_exists(d.username)
             /\ users' = Append(users, user)
             /\ Respond(a, Created)
          \/ /\ UNCHANGED users
             /\ Respond(a, Rejected(500, E_UNEXPECTED))
    /\ UNCHANGED <<AI_USAGE_LIMIT, store, locals, count0, quota, hits, r_call>>

\* the same with the token made for the identifier the client gave
Login_subject_is_login(a) ==
    /\ auth[a].pc = "idle"
    /\ \E d \in LoginSchema, captcha \in Captchas :
        LET found == {i \in DOMAIN users :
                        users[i].email = d.login \/ users[i].username = d.login}
            answer(r) == auth' = [auth EXCEPT ![a] =
                            [pc |-> "idle", op |-> "login", req |-> d, resp |-> r]]
        IN  IF captcha # "ok" THEN answer(Rejected(400, E_CAPTCHA))
            ELSE IF found = {} THEN answer(Rejected(404, E_NOT_FOUND))
            ELSE \E i \in found :
                   IF ~verify_password(d.password, users[i].password)
                   THEN answer(Rejected(403, E_PASSWORD))
                   ELSE answer(LoggedIn(create_access_token([sub |-> d.login])))
    /\ UNCHANGED <<AI_USAGE_LIMIT, store, locals, count0, quota, users,
                   hits, r_call>>

\* auth_repository.py:48-70: recaptcha, the query on email or username, the
\* password check, the token for the user's email
Login(a) ==
    /\ auth[a].pc = "idle"
    /\ \E d \in LoginSchema, captcha \in Captchas :
        LET found == {i \in DOMAIN users :
                        users[i].email = d.login \/ users[i].username = d.login}
            answer(r) == auth' = [auth EXCEPT ![a] =
                            [pc |-> "idle", op |-> "login", req |-> d, resp |-> r]]
        IN  IF captcha # "ok" THEN answer(Rejected(400, E_CAPTCHA))
            ELSE IF found = {} THEN answer(Rejected(404, E_NOT_FOUND))
            ELSE \E i \in found :
                   IF ~verify_password(d.password, users[i].password)
                   THEN answer(Rejected(403, E_PASSWORD))
                   ELSE answer(LoggedIn(create_access_token(
                                            [sub |-> users[i].email])))
    /\ UNCHANGED <<AI_USAGE_LIMIT, store, locals, count0, quota, users,
                   hits, r_call>>

InitAuth ==
    /\ AI_USAGE_LIMIT = DEFAULT_AI_USAGE_LIMIT
    /\ ai_requests_count = [u \in {UserId} |-> 0]
    /\ is_unlimited = [u \in {UserId} |-> FALSE]
    /\ count0 = 0
    /\ chat_history = <<>>
    /\ InitLocals
    /\ cred = [p \in Procs |-> "none"]
    /\ q_user = NoUser
    /\ q_call = NoCall
    /\ InitSide

NextAuth ==
    \E a \in AuthClients :
        \/ SignupCheck(a)
        \/ SignupCommit(a)
        \/ Login(a)

SpecAuth == InitAuth /\ [][NextAuth]_vars

\* ------------------------------------------------- the rate limiter alone
\* The limiter object of api/chat.py:25-28 is called by every connection
\* (line 70).  FastAPILimiter is initialised without an identifier
\* (main.py:25), so the limiter builds its redis key from the library's
\* default identifier, the client's address and the path of the endpoint,
\* followed by the context key; its script counts the calls of a key and
\* lets the key expire a window after its first call.

RATE_LIMIT_TIMES == 5

\* connections: two of user 1 from one address, one of user 1 from another
\* address, one of user 2
RateConns ==
    [c1 |-> [addr |-> "10.0.0.1", user_id |-> 1],
     c2 |-> [addr |-> "10.0.0.1", user_id |-> 1],
     c3 |-> [addr |-> "10.0.0.2", user_id |-> 1],
     c4 |-> [addr |-> "10.0.0.1", user_id |-> 2]]

\* fastapi_limiter: default_identifier, the client's address and the path
default_identifier(c) == <<RateConns[c].addr, "/ws/chat">>

\* fastapi_limiter: the key of WebSocketRateLimiter.__call__
limiter_key(c) ==
    <<"fastapi-limiter", "ws", default_identifier(c),
      context_key(RateConns[c].user_id)>>

RateKeys == {limiter_key(c) : c \in DOMAIN RateConns}

\* api/chat.py:69-76 for connection c: the script admits the call and counts
\* it while the key has counted fewer than RATE_LIMIT_TIMES calls, and
\* rejects it otherwise (HTTPException, answered with the rate-limit frame)
RateLimiterCall(c) ==
    /\ LET key == limiter_key(c)
           admitted == hits[key] + 1 <= RATE_LIMIT_TIMES
       IN  /\ hits' = IF admitted THEN [hits EXCEPT ![key] = @ + 1] ELSE hits
           /\ r_call' = [called |-> TRUE, conn |-> c, key |-> key,
                         admitted |-> admitted]
    /\ UNCHANGED <<AI_USAGE_LIMIT, store, locals, count0, quota, users, auth>>

\* redis: a key expires RATE_LIMIT_WINDOW seconds after its first call
WindowExpires(key) ==
    /\ hits[key] > 0
    /\ hits' = [hits EXCEPT ![key] = 0]
    /\ UNCHANGED <<AI_USAGE_LIMIT, store, locals, count0, quota, users, auth,
                   r_call>>

InitRate ==
    /\ AI_USAGE_LIMIT = DEFAULT_AI_USAGE_LIMIT
    /\ ai_requests_count = [u \in {UserId} |-> 0]
    /\ is_unlimited = [u \in {UserId} |-> FALSE]
    /\ count0 = 0
    /\ chat_history = <<>>
    /\ InitLocals
    /\ cred = [p \in Procs |-> "none"]
    /\ q_user = NoUser
    /\ q_call = NoCall
    /\ users = <<>>
    /\ auth = [a \in AuthClients |-> NoAuth]
    /\ hits = [key \in RateKeys |-> 0]
    /\ r_call = NoCall

NextRate ==
    \/ \E c \in DOMAIN RateConns : RateLimiterCall(c)
    \/ \E key \in RateKeys : WindowExpires(key)

SpecRate == InitRate /\ [][NextRate]_vars

\* ------------------------------------------------ the quota policy alone
\* check_usage_limit applied to every user and limit of a bounded range, with
\* the limit overridden between calls as the tests do.

InitQuota ==
    /\ AI_USAGE_LIMIT \in 1..MaxLimit
    /\ ai_requests_count = [u \in {UserId} |-> 0]
    /\ is_unlimited = [u \in {UserId} |-> FALSE]
    /\ count0 = 0
    /\ chat_history = <<>>
    /\ InitLocals
    /\ cred = [p \in Procs |-> "none"]
    /\ q_user \in [id : {UserId}, ai_requests_count : 0..MaxCount,
                   is_unlimited : BOOLEAN]
    /\ q_call = NoCall
    /\ InitSide

\* tests/unit/test_chat_repository.py:200-201, monkeypatch of the setting
Monkeypatch ==
    /\ \E l \in 1..MaxLimit : AI_USAGE_LIMIT' = l
    /\ UNCHANGED <<store, locals, count0, quota, side>>

\* chat_repository.py:12-22 called on q_user
QuotaCall ==
    /\ q_call' = [called |-> TRUE, user |-> q_user, limit |-> AI_USAGE_LIMIT,
                  result |-> check_usage_limit(q_user)]
    /\ UNCHANGED <<AI_USAGE_LIMIT, store, locals, count0, q_user, side>>

NextQuota == Monkeypatch \/ QuotaCall

SpecQuota == InitQuota /\ [][NextQuota]_vars

\* ================================================================= claims

Limited == ~is_unlimited[UserId]
Rows(u) == {i \in DOMAIN chat_history : chat_history[i].user_id = u}

\* C1: a ChatRecord and the increment of usage_count are never observed
\* independently: for a non-unlimited user every step of the system that adds
\* a record raises the stored counter by one, and every step that raises the
\* counter adds a record.
C1_RecordIffIncrement ==
    [][Limited =>
        /\ (Len(chat_history') = Len(chat_history) + 1
              <=> ai_requests_count'[UserId] = ai_requests_count[UserId] + 1)
        /\ (Len(chat_history') = Len(chat_history)
              <=> ai_requests_count'[UserId] = ai_requests_count[UserId])]_vars

\* C2: two connections of a non-unlimited user that both loaded the user at
\* usage_count = LIMIT - 1 never both commit an exchange.
C2_ExactlyOneSucceeds ==
    \A s1, s2 \in WSConns :
        (/\ s1 # s2
         /\ Limited
         /\ fetched[s1].count = AI_USAGE_LIMIT - 1
         /\ fetched[s2].count = AI_USAGE_LIMIT - 1)
        => ~(chat[s1].id > 0 /\ chat[s2].id > 0)

\* C3: the stored usage_count never decreases.
C3_CounterNeverDecreases ==
    [][ai_requests_count'[UserId] >= ai_requests_count[UserId]]_vars

\* C4: for a non-unlimited user, usage_count minus its initial value is the
\* number of ChatRecords created for the user.
C4_CounterCountsRecords ==
    Limited => ai_requests_count[UserId] - count0 = Cardinality(Rows(UserId))

\* C5: when the commit after a provider reply fails, that step leaves the
\* store as it was, emits the storage-error frame and returns the session to
\* Ready; and no earlier step of the exchange writes the store (only the
\* commit step does).
C5_CommitFailureRollsBack ==
    [][\A s \in WSConns :
        /\ (pc[s] = "commit" /\ pc'[s] = "ready") =>
              /\ store' = store
              /\ sent'[s] = ErrorFrame(E_DATABASE, 0, "commit failed")
        /\ (pc[s] \in {"ready", "ratelimit", "fetch", "gates", "dispatch"}
              /\ pc'[s] # pc[s]) => store' = store]_vars

C5_Witness ==
    \E s \in WSConns :
        /\ sent[s] = ErrorFrame(E_DATABASE, 0, "commit failed")
        /\ pc[s] = "ready"
        /\ response_text[s] \in Replies
        /\ chat_history = <<>>
        /\ ai_requests_count[UserId] = count0

\* C6: for a non-unlimited user check_usage_limit returns
\* remaining = max(0, LIMIT - usage_count) with the LIMIT configured when it
\* is called, (false, 0) when that is 0 and (true, remaining) otherwise; the
\* remaining value is never negative and does not grow with usage_count.
C6_QuotaOfLimitedUser ==
    /\ (q_call.called /\ ~q_call.user.is_unlimited) =>
          LET c == q_call.user.ai_requests_count
              l == q_call.limit
          IN  /\ c >= l => q_call.result = <<FALSE, 0>>
              /\ c < l => q_call.result = <<TRUE, l - c>>
              /\ q_call.result[2] >= 0
    /\ \A c \in 0..MaxCount :
          check_usage_limit([id |-> UserId, ai_requests_count |-> c + 1,
                             is_unlimited |-> FALSE])[2]
          <= check_usage_limit([id |-> UserId, ai_requests_count |-> c,
                                is_unlimited |-> FALSE])[2]

C6_Witness ==
    /\ q_call.called
    /\ ~q_call.user.is_unlimited
    /\ q_call.user.ai_requests_count > q_call.limit
    /\ q_call.limit # DEFAULT_AI_USAGE_LIMIT
    /\ q_call.result = <<FALSE, 0>>

\* C7: for an unlimited user check_usage_limit returns (true, -1) whatever
\* the usage_count.
C7_QuotaOfUnlimitedUser ==
    (q_call.called /\ q_call.user.is_unlimited) => q_call.result = <<TRUE, -1>>

C7_Witness ==
    /\ q_call.called
    /\ q_call.user.is_unlimited
    /\ q_call.user.ai_requests_count > q_call.limit
    /\ q_call.result = <<TRUE, -1>>

\* C8: the commit of a successful exchange appends exactly one ChatRecord
\* with the session user's id and the message's provider, prompt and reply,
\* raises the stored usage_count by exactly 1 for a non-unlimited user and
\* leaves it unchanged for an unlimited one.
C8_SuccessfulExchange ==
    [][\A s \in WSConns :
        (pc[s] = "commit" /\ pc'[s] = "refresh") =>
            /\ Len(chat_history') = Len(chat_history) + 1
            /\ SubSeq(chat_history', 1, Len(chat_history)) = chat_history
            /\ LET row == chat_history'[Len(chat_history')]
               IN  /\ row.user_id = UserId
                   /\ row.model_name = data[s].model_name
                   /\ row.prompt = data[s].prompt
                   /\ row.response = response_text[s]
            /\ ai_requests_count'[UserId] =
                  IF Limited THEN ai_requests_count[UserId] + 1
                  ELSE ai_requests_count[UserId]]_vars

\* C9 as stated: the success frame of a non-unlimited user whose usage_count
\* was c when the exchange loaded it reports max(0, LIMIT - (c + 1)); an
\* unlimited user's reports -1.
C9_Original ==
    \A s \in WSConns :
        sent[s].type = "success" =>
            sent[s].remaining_requests =
                IF Limited THEN Max(0, AI_USAGE_LIMIT - (fetched[s].count + 1))
                ELSE UNLIMITED

\* C9 amended: the remaining value of the success frame is computed from the
\* usage_count re-read from the store after the exchange's commit,
\* max(0, LIMIT - that value); it is max(0, LIMIT - (c + 1)) when no other
\* exchange committed since this one loaded the user; it is -1 for an
\* unlimited user.
C9_RemainingAfterCommit ==
    [][\A s \in WSConns :
        /\ (pc[s] = "refresh" /\ pc'[s] = "send") =>
              /\ final_remaining'[s] =
                    IF Limited
                    THEN Max(0, AI_USAGE_LIMIT - ai_requests_count[UserId])
                    ELSE UNLIMITED
              /\ (Limited /\ Len(chat_history) = fetched[s].rows + 1) =>
                    final_remaining'[s] =
                        Max(0, AI_USAGE_LIMIT - (fetched[s].count + 1))
        /\ (pc[s] = "send" /\ pc'[s] = "ready") =>
              /\ sent'[s].type = "success"
              /\ sent'[s].remaining_requests = final_remaining[s]]_vars

C9_Witness ==
    \E s \in WSConns :
        /\ Limited
        /\ sent[s].type = "success"
        /\ Len(chat_history) = fetched[s].rows + 1
        /\ sent[s].remaining_requests = AI_USAGE_LIMIT - (fetched[s].count + 1)
        /\ sent[s].remaining_requests > 0

\* the scenario of C10: LIMIT = 10, a non-unlimited user at usage_count = 5
\* sends one message to GROQ, answered "AI Response"
C10_Scenario(s) ==
    /\ AI_USAGE_LIMIT = 10
    /\ Limited
    /\ count0 = 5
    /\ nmsgs = 1
    /\ data[s] \in Messages
    /\ data[s].model_name = "groq"
    /\ sent[s].type = "success"
    /\ sent[s].response = "AI Response"

\* C10 as stated: in that scenario the success frame reports remaining = 3.
C10_Original ==
    \A s \in WSConns : C10_Scenario(s) => sent[s].remaining_requests = 3

\* C10 amended: in that scenario the success frame reports
\* remaining = 10 - 6 = 4.
C10_RemainingIsFour ==
    \A s \in WSConns : C10_Scenario(s) => sent[s].remaining_requests = 4

C10_Witness ==
    \E s \in WSConns :
        /\ C10_Scenario(s)
        /\ sent[s].remaining_requests = 4
        /\ ai_requests_count[UserId] = 6

\* an exchange at the quota check: a well-formed message the rate limiter
\* admitted, for an available provider, of a non-unlimited user whose loaded
\* usage_count has reached LIMIT
C11_AtLimit(s) ==
    /\ pc[s] = "gates"
    /\ is_provider_available(data[s].model_name)
    /\ ~current_user[s].is_unlimited
    /\ current_user[s].ai_requests_count >= AI_USAGE_LIMIT

\* C11: when a non-unlimited user's usage_count has reached LIMIT, the
\* exchange is rejected with the one frame "AI usage limit reached", which
\* carries the configured LIMIT; the provider is neither resolved nor called,
\* no ChatRecord is written and usage_count is unchanged.
C11_QuotaExceededRejected ==
    [][\A s \in WSConns :
        (C11_AtLimit(s) /\ pc'[s] # "gates") =>
            /\ store' = store
            /\ \/ pc'[s] = "closed"
               \/ /\ pc'[s] = "ready"
                  /\ sent'[s] = ErrorFrame(E_LIMIT, AI_USAGE_LIMIT, "none")
                  /\ nframes'[s] = 1
                  /\ trace'[s] = <<"ratelimit", "fetch", "available", "quota">>
                  /\ chat'[s] = NoRow
                  /\ wrote'[s] = -1]_vars

C11_Witness ==
    \E s \in WSConns :
        /\ pc[s] = "ready"
        /\ sent[s] = ErrorFrame(E_LIMIT, AI_USAGE_LIMIT, "none")
        /\ current_user[s].ai_requests_count = AI_USAGE_LIMIT
        /\ ~current_user[s].is_unlimited
        /\ chat_history = <<>>
        /\ ai_requests_count[UserId] = count0

\* C12: a message for a provider the availability table marks unavailable is
\* rejected with the one availability frame before the quota policy is
\* evaluated (also when the user is over quota), without resolving or calling
\* a provider client, and leaves the store unchanged.
C12_UnavailableRejectedFirst ==
    [][\A s \in WSConns :
        (/\ pc[s] = "gates"
         /\ ~PROVIDER_AVAILABILITY[data[s].model_name]
         /\ pc'[s] # "gates") =>
            /\ store' = store
            /\ \/ pc'[s] = "closed"
               \/ /\ pc'[s] = "ready"
                  /\ sent'[s] = ErrorFrame(E_UNAVAILABLE, 0, "none")
                  /\ nframes'[s] = 1
                  /\ trace'[s] = <<"ratelimit", "fetch", "available">>
                  /\ chat'[s] = NoRow
                  /\ wrote'[s] = -1]_vars

C12_Witness ==
    \E s \in WSConns :
        /\ pc[s] = "ready"
        /\ data[s].model_name = "gemini"
        /\ sent[s] = ErrorFrame(E_UNAVAILABLE, 0, "none")
        /\ ~current_user[s].is_unlimited
        /\ current_user[s].ai_requests_count >= AI_USAGE_LIMIT
        /\ trace[s] = <<"ratelimit", "fetch", "available">>
        /\ chat_history = <<>>
        /\ ai_requests_count[UserId] = count0

\* C13: when the provider dispatch raises, the exchange sends exactly one
\* error frame, which carries the upstream error text, writes no ChatRecord,
\* leaves usage_count at its value before the exchange (the value the exchange
\* loaded, when no other exchange committed meanwhile), and the session is
\* back in Ready.
C13_ProviderErrorRecovers ==
    [][\A s \in WSConns :
        (pc[s] = "dispatch" /\ pc'[s] \notin {"dispatch", "commit"}) =>
            /\ store' = store
            /\ \/ pc'[s] = "closed"
               \/ /\ pc'[s] = "ready"
                  /\ close_code'[s] = 0
                  /\ \E e \in Failures :
                        sent'[s] = ErrorFrame(E_PLATFORM, 0, e)
                  /\ nframes'[s] = 1
                  /\ response_text'[s] = "none"
                  /\ chat'[s] = NoRow
                  /\ wrote'[s] = -1
                  /\ Len(chat_history) = fetched[s].rows =>
                        ai_requests_count'[UserId] = fetched[s].count]_vars

C13_Witness ==
    \E s \in WSConns :
        /\ pc[s] = "ready"
        /\ sent[s] = ErrorFrame(E_PLATFORM, 0, "API key invalid")
        /\ nframes[s] = 1
        /\ trace[s] = <<"ratelimit", "fetch", "available", "quota", "resolve",
                        "dispatch">>
        /\ chat_history = <<>>
        /\ ai_requests_count[UserId] = count0

\* C14: a malformed inbound message (any payload that is not a valid
\* {provider, prompt} message) never closes the connection: receiving one
\* never makes the handler close, a payload of the wrong shape is answered
\* with an error frame, and the session stays in Ready.
C14_MalformedNeverCloses ==
    [][\A s \in WSConns :
        (pc[s] = "ready" /\ nmsgs' = nmsgs + 1) =>
            /\ close_code'[s] # WS_1011_INTERNAL_ERROR
            /\ (pc'[s] = "ready" /\ data'[s] \notin Messages
                    /\ data'[s] # NoData) =>
                  /\ sent'[s] = ErrorFrame(E_INVALID, 0, "none")
                  /\ store' = store]_vars

\* the frame of a rate-limit rejection
C15_RateFrame == ErrorFrame(E_RATE, RATE_LIMIT_WINDOW, "none")

\* C15: a message the rate limiter rejects is answered with the one
\* rate-limit error frame and the session returns to Ready; for that message
\* the user's quota state is not read, the quota policy is not evaluated, the
\* provider is not called and the store is not written.
C15_RateLimitedRejected ==
    [][\A s \in WSConns :
        /\ (pc[s] = "ratelimit" /\ pc'[s] \notin {"ratelimit", "fetch"}) =>
              /\ store' = store
              /\ pc'[s] = "closed" \/ sent'[s] = C15_RateFrame
        /\ sent'[s] = C15_RateFrame =>
              /\ pc'[s] = "ready"
              /\ close_code'[s] = 0
              /\ nframes'[s] = 1
              /\ trace'[s] = <<"ratelimit">>
              /\ current_user'[s] = NoUser
              /\ fetched'[s] = NoFetch
              /\ response_text'[s] = "none"
              /\ chat'[s] = NoRow
              /\ wrote'[s] = -1]_vars

C15_Witness ==
    \E s \in WSConns :
        /\ pc[s] = "ready"
        /\ sent[s] = C15_RateFrame
        /\ data[s] \in Messages
        /\ trace[s] = <<"ratelimit">>
        /\ current_user[s] = NoUser
        /\ chat_history = <<>>
        /\ ai_requests_count[UserId] = count0

\* the credentials that do not authenticate: none, a bad or an expired token,
\* or a token of no stored user
C16_BadCreds == {"missing", "invalid", "expired", "no_user"}

\* C16: a connection whose credential is missing, invalid or expired, or
\* resolves to no stored user, never reaches Ready: it is closed with
\* policy-violation (a lookup that fails before it resolves anything ends the
\* handler with internal-error), and none of its messages is processed: no
\* message is received, no frame sent, no rate-limit consultation, quota
\* check, provider call or store mutation.
C16_BadCredentialNeverReady ==
    [][\A s \in WSConns :
        cred'[s] \in C16_BadCreds =>
            /\ pc'[s] \in {"connecting", "resolving", "closed"}
            /\ pc'[s] = "resolving" => cred'[s] = "no_user"
            /\ pc'[s] = "closed" =>
                  \/ close_code'[s] = WS_1008_POLICY_VIOLATION
                  \/ /\ cred'[s] = "no_user"
                     /\ close_code'[s] = WS_1011_INTERNAL_ERROR
            /\ trace'[s] = <<>>
            /\ sent'[s] = None
            /\ data'[s] = NoData
            /\ current_user'[s] = NoUser
            /\ wrote'[s] = -1
            /\ pc'[s] # pc[s] => (store' = store /\ nmsgs' = nmsgs)]_vars

C16_Witness ==
    \E s \in WSConns, h \in HTTPClients :
        /\ cred[s] = "no_user"
        /\ pc[s] = "closed"
        /\ close_code[s] = WS_1008_POLICY_VIOLATION
        /\ sent[h].type = "http"

\* history: the exchange of p made the check or call named step
C17_Made(p, step) == \E i \in DOMAIN trace[p] : trace[p][i] = step

\* the checks and calls of an exchange from the availability check on
C17_Pipeline(p) ==
    SelectSeq(trace[p], LAMBDA x : x \notin {"ratelimit", "fetch"})

\* what the provider and the store answered to the exchange of p
C17_Answers(p) ==
    <<IF C17_Made(p, "dispatch") THEN response_text[p] ELSE "not asked",
      IF C17_Made(p, "commit") THEN chat[p] # NoRow ELSE FALSE,
      IF C17_Made(p, "refresh") THEN sent[p].type \in {"success", "http"}
      ELSE FALSE>>

\* how the exchange of p ended, apart from the transport
C17_Ending(p) ==
    IF sent[p].type \in {"success", "http"}
    THEN <<"ok", sent[p].response>>
    ELSE <<sent[p].error, sent[p].limit, sent[p].detail>>

\* C17: the HTTP chat request and a WebSocket message apply the same checks
\* in the same order (availability, quota, dispatch, commit), have the same
\* effect on the store and report the same remaining quota on success: an
\* HTTP exchange and a WebSocket exchange given the same message, the same
\* loaded user and the same answers of provider and store make the same
\* checks and calls in the same order, end the same way, store the same
\* counter and the same row, and compute the same remaining value from the
\* same re-read usage_count.
C17_HttpMirrorsWebSocket ==
    \A s \in WSConns, h \in HTTPClients :
        /\ (/\ pc[s] = "ready" /\ sent[s].type \in {"error", "success"}
            /\ C17_Made(s, "available")
            /\ pc[h] = "idle" /\ sent[h].type \in {"http", "http_error"}
            /\ data[s] = data[h]
            /\ fetched[s].count = fetched[h].count
            /\ C17_Answers(s) = C17_Answers(h)) =>
              /\ C17_Pipeline(s) = C17_Pipeline(h)
              /\ C17_Ending(s) = C17_Ending(h)
              /\ wrote[s] = wrote[h]
              /\ (chat[s] = NoRow) = (chat[h] = NoRow)
              /\ chat[s] # NoRow =>
                    [chat[s] EXCEPT !.id = 0] = [chat[h] EXCEPT !.id = 0]
        /\ (/\ pc[s] = "send"
            /\ pc[h] = "idle" /\ sent[h].type = "http"
            /\ current_user[s] = current_user[h]) =>
              final_remaining[s] = sent[h].remaining_requests

C17_Witness ==
    \E s \in WSConns, h \in HTTPClients :
        /\ Limited
        /\ pc[s] = "ready" /\ sent[s].type = "success"
        /\ pc[h] = "idle" /\ sent[h].type = "http"
        /\ data[s] = data[h]
        /\ fetched[s].count = fetched[h].count
        /\ C17_Pipeline(s) = <<"available", "quota", "resolve", "dispatch",
                               "commit", "refresh">>
        /\ C17_Pipeline(h) = C17_Pipeline(s)
        /\ wrote[s] = wrote[h]
        /\ sent[s].remaining_requests = sent[h].remaining_requests

\* the full course of a successful exchange
C18_FullCourse ==
    <<"ratelimit", "fetch", "available", "quota", "resolve", "dispatch",
      "commit", "refresh">>

\* C18: after an exchange that ends in a rate-limit, provider-unavailable,
\* quota-exceeded, provider or storage error frame the session is in Ready
\* with the connection open; a message after such an exchange is processed
\* as any other (its success frame stands for the full course and a stored
\* row); the handler closes a connection only on an authentication failure
\* (policy-violation, at the handshake) or on an unexpected fault
\* (internal-error), never while it checks, dispatches or commits a message,
\* and a session ends otherwise only when the client is gone.
C18_RecoverableErrorsKeepSession ==
    [][\A s \in WSConns :
        /\ EndedInError(sent'[s]) =>
              /\ pc'[s] = "ready"
              /\ close_code'[s] = 0
        /\ (prev'[s] /\ sent'[s].type = "success") =>
              /\ pc'[s] = "ready"
              /\ trace'[s] = C18_FullCourse
              /\ \E i \in DOMAIN chat_history' : chat_history'[i] = chat'[s]
        /\ (pc[s] # "closed" /\ pc'[s] = "closed") =>
              \/ /\ close_code'[s] = WS_1008_POLICY_VIOLATION
                 /\ pc[s] \in {"connecting", "resolving"}
              \/ /\ close_code'[s] = WS_1011_INTERNAL_ERROR
                 /\ pc[s] \in {"resolving", "ready", "fetch", "send"}
              \/ close_code'[s] = WS_1000_NORMAL_CLOSURE]_vars

C18_Witness ==
    \E s \in WSConns :
        /\ prev[s]
        /\ pc[s] = "ready"
        /\ close_code[s] = 0
        /\ sent[s].type = "success"
        /\ \E i \in DOMAIN chat_history : chat_history[i] = chat[s]

\* C19: every message that does not close the connection produces exactly one
\* outbound frame: while the message is processed none is sent, and when the
\* session is back in Ready exactly one was, an error frame and no success
\* frame when the message was rejected or failed, a success frame and no
\* error frame when it succeeded (its course is the full one and its row is
\* stored).
C19_OneFramePerExchange ==
    \A s \in WSConns :
        /\ pc[s] \in {"ratelimit", "fetch", "gates", "dispatch", "commit",
                      "refresh", "send"} =>
              (nframes[s] = 0 /\ sent[s] = None)
        /\ (pc[s] = "ready" /\ data[s] # NoData) =>
              /\ nframes[s] = 1
              /\ sent[s].type \in {"error", "success"}
              /\ IF sent[s].type = "success"
                 THEN /\ trace[s] = C18_FullCourse
                      /\ sent[s].response = response_text[s]
                      /\ \E i \in DOMAIN chat_history :
                             chat_history[i] = chat[s]
                 ELSE /\ sent[s].error \in RecoverableErrors \cup {E_INVALID}
                      /\ sent[s].error \in {E_INVALID, E_RATE, E_UNAVAILABLE,
                                            E_LIMIT, E_PLATFORM} =>
                            (chat[s] = NoRow /\ wrote[s] = -1)

C19_Witness ==
    \E s, r \in WSConns :
        /\ pc[s] = "ready" /\ pc[r] = "ready"
        /\ nframes[s] = 1 /\ nframes[r] = 1
        /\ sent[s].type = "success"
        /\ sent[r].type = "error"

\* the session of s is over
C20_Closed(s) == close_code[s] # 0

\* a step of s that ends its session
C20_Closes(s) == WsNext(s) /\ close_code'[s] # 0

\* C20: Closed is terminal and reachable from every session state. A session
\* is over exactly when its handler stopped; it ends with policy-violation,
\* with internal-error (an unexpected fault) or because the client is gone.
\* From every state of an open session the next step can end it, except
\* before authenticate_websocket and at checks that pass, which lead to such
\* a state. Once a session is over it receives no further message, sends no
\* further frame and writes nothing to the store: it takes no step at all.
C20_ClosedIsTerminal ==
    /\ [](\A s \in WSConns :
            /\ C20_Closed(s) <=> pc[s] = "closed"
            /\ close_code[s] \in {0, WS_1000_NORMAL_CLOSURE,
                                  WS_1008_POLICY_VIOLATION,
                                  WS_1011_INTERNAL_ERROR}
            /\ (~C20_Closed(s) /\ pc[s] \notin {"connecting", "gates"}) =>
                  ENABLED C20_Closes(s))
    /\ [][\A s \in WSConns :
            /\ (pc[s] \in {"connecting", "gates"} /\ pc'[s] # pc[s]) =>
                  pc'[s] \in {"resolving", "dispatch", "ready", "closed"}
            /\ (pc[s] \in {"fetch", "send"} /\ C20_Closed(s)'
                    /\ close_code'[s] # WS_1000_NORMAL_CLOSURE) =>
                  close_code'[s] = WS_1011_INTERNAL_ERROR
            /\ C20_Closed(s) =>
                  /\ pc'[s] = "closed"
                  /\ close_code'[s] = close_code[s]
                  /\ sent'[s] = sent[s] /\ nframes'[s] = nframes[s]
                  /\ data'[s] = data[s] /\ trace'[s] = trace[s]
                  /\ chat'[s] = chat[s] /\ wrote'[s] = wrote[s]
                  /\ (\A p \in Procs \ {s} : pc'[p] = pc[p]
                        /\ sent'[p] = sent[p]) => store' = store]_vars

C20_Witness ==
    \E s, r \in WSConns :
        /\ pc[s] = "closed"
        /\ close_code[s] = WS_1011_INTERNAL_ERROR
        /\ pc[r] = "closed"
        /\ close_code[r] = WS_1000_NORMAL_CLOSURE
        /\ nmsgs = MaxMsgs
        /\ chat_history # <<>>

\* C21: get_chat_history(provider, user) returns exactly the stored rows whose
\* user_id is the requesting user's id and whose provider is the requested
\* one: every returned row is a stored row of that user and provider, every
\* such stored row is returned, once, and the result is empty when there is
\* none.
C21_Matching(h) ==
    {i \in DOMAIN chat_history :
        /\ chat_history[i].user_id = current_user[h].id
        /\ chat_history[i].model_name = data[h].model_name}

C21_HistoryIsExactlyTheUsersRows ==
    \A h \in HTTPClients :
        sent[h].type = "history" =>
            LET result == sent[h].chat
            IN  /\ \A j \in DOMAIN result :
                     \E i \in C21_Matching(h) : result[j] = chat_history[i]
                /\ \A i \in C21_Matching(h) :
                     \E j \in DOMAIN result : result[j] = chat_history[i]
                /\ Len(result) = Cardinality(C21_Matching(h))
                /\ (C21_Matching(h) = {} => result = <<>>)

\* a query answered with one row out of a table that also holds a row of
\* another user and a row of another provider
C21_Witness ==
    \E h \in HTTPClients :
        /\ sent[h].type = "history"
        /\ Len(sent[h].chat) = 1
        /\ \E i \in DOMAIN chat_history :
              /\ chat_history[i].user_id # current_user[h].id
              /\ chat_history[i].model_name = data[h].model_name
        /\ \E i \in DOMAIN chat_history :
              /\ chat_history[i].user_id = current_user[h].id
              /\ chat_history[i].model_name # data[h].model_name

\* C22: the chat history is append-only: every step of the core (exchanges
\* on either path, rejected or successful, and history queries) leaves every
\* row created before it in the table, unchanged and at its place.
C22_HistoryIsAppendOnly ==
    [][\A i \in DOMAIN chat_history :
          /\ i \in DOMAIN chat_history'
          /\ chat_history'[i] = chat_history[i]]_vars

\* a row was stored, the next message of the connection was rejected, and a
\* history query then still returned the row
C22_Witness ==
    \E s \in WSConns, h \in HTTPClients :
        /\ sent[s].type = "error"
        /\ sent[h].type = "history"
        /\ Len(chat_history) = 1
        /\ sent[h].chat = chat_history

\* C23: no two stored users ever share an email or a username; a signup that
\* reaches the checks with an email that is registered is rejected with
\* "Email already registered", whatever its username, one with a free email
\* and a registered username with "Username already registered", and a step
\* that rejects a signup leaves the users table as it was.
C23_Unique ==
    \A i, j \in DOMAIN users :
        i # j => /\ users[i].email # users[j].email
                 /\ users[i].username # users[j].username

C23_SignupStep(a) ==
    /\ auth'[a] # auth[a]
    /\ auth'[a].op = "signup"

C23_Checks(a) ==
    /\ C23_SignupStep(a)
    /\ auth[a].pc = "idle"
    /\ auth'[a].resp # Rejected(400, E_CAPTCHA)

C23_EmailTaken(a) == \E i \in DOMAIN users : users[i].email = auth'[a].req.email
C23_UsernameTaken(a) ==
    \E i \in DOMAIN users : users[i].username = auth'[a].req.username

C23_SignupKeepsUsersUnique ==
    /\ []C23_Unique
    /\ [][\A a \in AuthClients :
            /\ C23_Checks(a) /\ C23_EmailTaken(a)
                  => auth'[a].resp = Rejected(400, E_EMAIL)
            /\ C23_Checks(a) /\ ~C23_EmailTaken(a) /\ C23_UsernameTaken(a)
                  => auth'[a].resp = Rejected(400, E_USERNAME)
            /\ C23_SignupStep(a) /\ auth'[a].resp.status >= 400
                  => users' = users
            /\ C23_SignupStep(a) /\ users' # users
                  => /\ auth'[a].resp = Created
                     /\ Len(users') = Len(users) + 1]_vars

\* two users are stored and a signup with a free email and a registered
\* username was rejected
C23_Witness ==
    /\ Len(users) = 2
    /\ \E a \in AuthClients :
          /\ auth[a].op = "signup"
          /\ auth[a].resp = Rejected(400, E_USERNAME)
    /\ \E a \in AuthClients :
          /\ auth[a].op = "signup"
          /\ auth[a].resp = Rejected(400, E_EMAIL)

\* C24: login matches the identifier against both email and username: one
\* that matches no stored user fails with "User not found", a password that
\* is not the matched user's fails with "Incorrect password", neither with a
\* token; a successful login carries a token whose subject is the matched
\* user's email, also when the identifier was the username.
C24_LoginStep(a) ==
    /\ auth'[a] # auth[a]
    /\ auth'[a].op = "login"
    /\ auth'[a].resp # Rejected(400, E_CAPTCHA)

C24_Found(a) ==
    {i \in DOMAIN users : \/ users[i].email = auth'[a].req.login
                          \/ users[i].username = auth'[a].req.login}

C24_LoginOutcomes ==
    [][\A a \in AuthClients :
          C24_LoginStep(a) =>
            /\ users' = users
            /\ C24_Found(a) = {} => auth'[a].resp = Rejected(404, E_NOT_FOUND)
            /\ \A i \in C24_Found(a) :
                 IF users[i].password = hash_password(auth'[a].req.password)
                 THEN /\ auth'[a].resp.status = 200
                      /\ auth'[a].resp.token = [sub |-> users[i].email]
                 ELSE auth'[a].resp = Rejected(403, E_PASSWORD)]_vars

\* a login by username answered with a token for the user's email
C24_Witness ==
    \E a \in AuthClients, i \in DOMAIN users :
        /\ auth[a].op = "login"
        /\ auth[a].req.login = users[i].username
        /\ auth[a].resp.status = 200
        /\ auth[a].resp.token.sub = users[i].email

\* C25: within one connection exchanges never overlap: a connection takes a
\* new inbound message only while it waits at the top of its loop, and then
\* the previous message, if there was one, has been answered with its frame.
C25_Takes(s) ==
    /\ nmsgs' = nmsgs + 1
    /\ <<pc[s], data[s], sent[s], nframes[s], trace[s], prev[s]>>'
          # <<pc[s], data[s], sent[s], nframes[s], trace[s], prev[s]>>

C25_ExchangesNeverOverlap ==
    [][\A s \in WSConns :
          C25_Takes(s) =>
            /\ pc[s] = "ready"
            /\ data[s] # NoData => nframes[s] = 1 /\ sent[s] # None]_vars

\* a connection is processing a message it took after an earlier one was
\* answered with an error frame
C25_Witness ==
    \E s \in WSConns :
        /\ pc[s] = "fetch"
        /\ prev[s]
        /\ trace[s] = <<"ratelimit">>
        /\ nframes[s] = 0

\* C26: the quota check of each message uses the usage counter and the
\* unlimited flag as stored when the message's user row was loaded, not the
\* row of the handshake: the exchange holds the stored values, a message
\* answered with quota-exceeded found the stored counter at LIMIT or above,
\* and a message of a limited user that went past the check found it below.
C26_PastQuotaCheck(s) ==
    \/ pc[s] \in {"dispatch", "commit", "refresh", "send"}
    \/ pc[s] = "ready" /\ sent[s].type = "success"
    \/ pc[s] = "ready" /\ sent[s].type = "error"
          /\ sent[s].error \in {E_PLATFORM, E_DATABASE}

C26_QuotaCheckUsesStoredValues ==
    \A s \in WSConns :
        /\ pc[s] \in {"gates", "dispatch", "commit"} =>
              /\ current_user[s].ai_requests_count = fetched[s].count
              /\ current_user[s].is_unlimited = is_unlimited[UserId]
        /\ pc[s] = "ready" /\ sent[s] = ErrorFrame(E_LIMIT, AI_USAGE_LIMIT, "none") =>
              /\ fetched[s].count >= AI_USAGE_LIMIT
              /\ ~is_unlimited[UserId]
        /\ C26_PastQuotaCheck(s) /\ ~is_unlimited[UserId] =>
              fetched[s].count < AI_USAGE_LIMIT

\* the counter was below LIMIT when the connections were opened, exchanges
\* brought it to LIMIT, and a connection's next message was rejected
C26_Witness ==
    \E s \in WSConns :
        /\ pc[s] = "ready"
        /\ sent[s] = ErrorFrame(E_LIMIT, AI_USAGE_LIMIT, "none")
        /\ ~is_unlimited[UserId]
        /\ count0 < AI_USAGE_LIMIT
        /\ fetched[s].count >= AI_USAGE_LIMIT
        /\ Len(chat_history) >= 1

\* C27: a success frame is emitted only after the exchange's row and counter
\* update are committed: whenever a connection is about to send, or has sent,
\* a success frame, its course went through commit before refresh, the store
\* holds the row the frame is made of, the exchange wrote the counter (its
\* loaded value + 1 for a limited user), and the frame's remaining value is
\* the one computed after the commit, from a counter that counts a commit.
C27_Succeeding(s) ==
    \/ pc[s] = "send"
    \/ pc[s] = "ready" /\ sent[s].type = "success"

C27_SuccessFrameOnlyAfterCommit ==
    \A s \in WSConns :
        C27_Succeeding(s) =>
            /\ \E i, j \in DOMAIN trace[s] :
                  i < j /\ trace[s][i] = "commit" /\ trace[s][j] = "refresh"
            /\ \E i \in DOMAIN chat_history : chat_history[i] = chat[s]
            /\ wrote[s] = IF is_unlimited[UserId] THEN count0
                          ELSE fetched[s].count + 1
            /\ IF is_unlimited[UserId]
               THEN final_remaining[s] = UNLIMITED
               ELSE final_remaining[s]
                        \in 0..Max(0, AI_USAGE_LIMIT - (count0 + 1))
            /\ pc[s] = "send" => final_remaining[s] = remaining_of(current_user[s])
            /\ pc[s] = "ready" =>
                  sent[s] = SuccessFrame(chat[s], final_remaining[s])

\* the second row of the table is the one a connection's success frame is
\* made of, and the frame's remaining value counts both commits
C27_Witness ==
    \E s \in WSConns :
        /\ pc[s] = "ready"
        /\ sent[s].type = "success"
        /\ ~is_unlimited[UserId]
        /\ Len(chat_history) = 2
        /\ chat_history[2] = chat[s]
        /\ sent[s].created_at = 2
        /\ sent[s].remaining_requests = AI_USAGE_LIMIT - (count0 + 2)

\* C28: a client disconnect at any point of an exchange never leaves a
\* partial commit: the step in which the handler meets the disconnect leaves
\* the store as it is, at that step the exchange has either stored both its
\* row and its counter value or neither, and a step of the connection that
\* changes the store stores both at once.
C28_Disconnects(s) ==
    /\ close_code[s] = 0
    /\ close_code'[s] = WS_1000_NORMAL_CLOSURE

C28_Neither(s) ==
    /\ chat[s] = NoRow
    /\ wrote[s] = -1

C28_Both(s) ==
    /\ \E i \in DOMAIN chat_history : chat_history[i] = chat[s]
    /\ wrote[s] = IF is_unlimited[UserId] THEN ai_requests_count[UserId]
                  ELSE fetched[s].count + 1

C28_DisconnectLeavesNoPartialCommit ==
    [][\A s \in WSConns :
          /\ C28_Disconnects(s) =>
                /\ store' = store
                /\ C28_Neither(s) \/ C28_Both(s)
          /\ (pc'[s] # pc[s] /\ store' # store) =>
                /\ chat_history' = Append(chat_history, chat'[s])
                /\ ai_requests_count'[UserId] = wrote'[s]
                /\ ~is_unlimited[UserId] => wrote'[s] = fetched[s].count + 1
                /\ is_unlimited' = is_unlimited]_vars

\* a connection has committed its row and its counter value, the success
\* frame is not sent yet, and its next step can be meeting the disconnect
C28_Witness ==
    \E s \in WSConns :
        /\ pc[s] = "send"
        /\ ~is_unlimited[UserId]
        /\ C28_Both(s)
        /\ ai_requests_count[UserId] = wrote[s]
        /\ ENABLED (WsSend(s) /\ C28_Disconnects(s))

\* C29 as stated: every inbound message a connection received and answered
\* caused exactly one consultation of the rate limiter.
C29_Consultations(s) ==
    Cardinality({i \in DOMAIN trace[s] : trace[s][i] = "ratelimit"})

C29_Original ==
    \A s \in WSConns :
        pc[s] = "ready" /\ nframes[s] = 1 => C29_Consultations(s) = 1

\* C29: every well-formed inbound message a Ready session receives causes
\* exactly one consultation of the rate limiter, with a key made of the id of
\* the connection's user: none before the limiter step, one from then on
\* until the next message; a message that fails validation is answered
\* without a consultation.
C29_OneConsultationPerValidMessage ==
    \A s \in WSConns :
        /\ pc[s] = "ratelimit" =>
              C29_Consultations(s) = 0 /\ rl_key[s] = NoKey
        /\ (data[s] \in Messages /\ pc[s] \notin {"ratelimit", "closed"}) =>
              /\ C29_Consultations(s) = 1
              /\ rl_key[s] = <<"user", user_id[s]>>
              /\ user_id[s] = UserId
        /\ (pc[s] = "ready" /\ data[s] = Malformed) =>
              /\ nframes[s] = 1
              /\ C29_Consultations(s) = 0
              /\ rl_key[s] = NoKey

\* a connection answered a message it had passed through the limiter and had
\* answered an earlier one with an error frame
C29_Witness ==
    \E s \in WSConns :
        /\ pc[s] = "ready"
        /\ prev[s]
        /\ data[s] \in Messages
        /\ nframes[s] = 1
        /\ trace[s][1] = "ratelimit"
        /\ rl_key[s] = <<"user", UserId>>

\* C30 as stated: all connections of one user share one rate-limit counter,
\* so the calls the limiter has admitted for a user within the running
\* windows, summed over the user's connections, never exceed the configured
\* count.
RECURSIVE C30_Sum(_)
C30_Sum(keys) ==
    IF keys = {} THEN 0
    ELSE LET key == CHOOSE k \in keys : TRUE
         IN  hits[key] + C30_Sum(keys \ {key})

C30_Admitted(u) ==
    C30_Sum({limiter_key(c) : c \in {d \in DOMAIN RateConns :
                                        RateConns[d].user_id = u}})

C30_OneCounterPerUser ==
    \A u \in Users : C30_Admitted(u) <= RATE_LIMIT_TIMES

\* C31 as stated: sessions run independently: while one connection waits for
\* the provider's reply, every other open connection can still take its next
\* step (receive a message while messages are left to send, go on with its
\* own exchange).
C31_CanGoOn(r) ==
    \/ pc[r] = "ready" /\ nmsgs < MaxMsgs /\ ENABLED (LoopFree(r) /\ WsReceive(r))
    \/ pc[r] = "ready" /\ nmsgs >= MaxMsgs
    \/ pc[r] # "ready" /\ ENABLED WorkerNext(r)

C31_SessionsRunIndependently ==
    \A s, r \in WSConns :
        (s # r /\ pc[s] = "dispatch" /\ pc[r] # "closed") => C31_CanGoOn(r)

C33_CounterWithinLimit ==
    (~is_unlimited[UserId] /\ count0 <= AI_USAGE_LIMIT)
        => ai_requests_count[UserId] <= AI_USAGE_LIMIT

\* two exchanges that loaded the same counter have both committed, and a
\* later one took the counter to the limit
C33_Witness ==
    /\ ~is_unlimited[UserId]
    /\ count0 < AI_USAGE_LIMIT
    /\ ai_requests_count[UserId] = AI_USAGE_LIMIT
    /\ Len(chat_history) > ai_requests_count[UserId] - count0
    /\ \E p \in Procs : wrote[p] = AI_USAGE_LIMIT

\* C34: for a user who is not unlimited and starts with a counter of 0 and
\* no stored replies, with the limit fixed, the number of ChatHistory rows
\* ever stored for the user never exceeds the limit, however the user's
\* connections and HTTP chat requests interleave.
C34_RecordsWithinLimit ==
    (~is_unlimited[UserId] /\ count0 = 0)
        => Len(SelectSeq(chat_history, LAMBDA row : row.user_id = UserId))
               <= AI_USAGE_LIMIT

\* C35: when the lookup made for a message finds no row of the session's
\* user, the handler's step closes the connection with policy violation
\* (1008) straight from the lookup, so that no provider call is made for the
\* message, leaves the store as it was, and the closed connection takes no
\* further step.  (A lookup that raises is a fault, closed with 1011.)
C35_LookupFindsNoUser(s) ==
    /\ pc[s] = "fetch"
    /\ ~Stored(UserId)
    /\ pc'[s] # pc[s]
    /\ close_code'[s] # WS_1011_INTERNAL_ERROR

C35_DeletedUserClosesSession ==
    [][\A s \in WSConns :
          /\ C35_LookupFindsNoUser(s) =>
                /\ pc'[s] = "closed"
                /\ close_code'[s] = WS_1008_POLICY_VIOLATION
                /\ nframes'[s] = 0 /\ sent'[s] = None
                /\ UNCHANGED <<store, nmsgs>>
          /\ pc[s] = "closed" =>
                /\ pc'[s] = "closed"
                /\ ~ENABLED WsNext(s)]_vars

C35_Witness ==
    \E s \in WSConns :
        /\ pc[s] = "fetch"
        /\ ~Stored(UserId)
        /\ data[s] \in [model_name : AIModels, prompt : Prompts]
        /\ ENABLED (WsFetchUser(s) /\ close_code'[s] = WS_1008_POLICY_VIOLATION)
        /\ \E i \in DOMAIN chat_history : chat_history[i].user_id = UserId

====
